---- MODULE Spec2Model ----
\* Verification model of the schema-driven file reader
\* (modules/datafilehandler.py, class DataFileReader): header normalisation,
\* header reconciliation, column validation and schema-driven type casting.
\*
\* Text is modelled as a sequence of characters; a character is a short
\* string naming it ("a", "1", "eacute", "ndash", ...).
EXTENDS Integers, Sequences, FiniteSets, TLC

VARIABLES
    pc,          \* position of the call under analysis
    header,      \* _normalize_header: the argument
    normalized,  \* _normalize_header: the value returned
    renorm,      \* _normalize_header applied to its own result
    cell,        \* _apply_schema on one cell: the raw cell (text or null)
    ctype,       \* _apply_schema on one cell: the declared type text
    cast,        \* _apply_schema on one cell: the outcome
    raw,         \* read(): the table returned by the format reader
    schema,      \* read(): the list under "columns" of the loaded schema
    validate,    \* read(): the validate_columns argument
    result,      \* read(): the outcome (a table or an error)
    descriptor,  \* the schema file: what the schema path names on the disk
    folder,      \* read_folder(): the folder argument as it is on the disk
    args,        \* the other arguments of the call under analysis
    ret,         \* the outcome of the call under analysis
    log          \* what the call under analysis logged, and the steps it made

vars == <<pc, header, normalized, renorm, cell, ctype, cast, raw, schema, validate, result,
          descriptor, folder, args, ret, log>>

\* a cell holding pandas' missing value (pd.NA / NaN / NaT / None)
NullCell == [tag |-> "null"]
\* a cell holding text
TextCell(s) == [tag |-> "text", text |-> s]

\* ------------------------------------------------------------------ bounds

\* longest header text enumerated for _normalize_header
MaxLen == 3

\* ------------------------------------------------------------- sequences

RECURSIVE SeqsUpTo(_, _)
\* all sequences over S of length 0..n
SeqsUpTo(S, n) ==
    IF n = 0 THEN {<<>>}
    ELSE LET shorter == SeqsUpTo(S, n - 1)
         IN  shorter \cup {Append(s, c) : s \in {t \in shorter : Len(t) = n - 1}, c \in S}

Range(s) == {s[i] : i \in DOMAIN s}

\* --------------------------------------------------------------- characters

\* str.isspace: the characters str.strip() removes
SpaceChars == {" "}

AsciiLower ==
    {"a", "b", "c", "d", "e", "f", "g", "h", "i", "j", "k", "l", "m",
     "n", "o", "p", "q", "r", "s", "t", "u", "v", "w", "x", "y", "z"}
AsciiUpper ==
    {"A", "B", "C", "D", "E", "F", "G", "H", "I", "J", "K", "L", "M",
     "N", "O", "P", "Q", "R", "S", "T", "U", "V", "W", "X", "Y", "Z"}
Digits == {"0", "1", "2", "3", "4", "5", "6", "7", "8", "9"}
\* U+00E9, U+00E3, U+00C3: precomposed accented letters
\* U+0301, U+0303: combining acute accent and combining tilde
\* U+2013: en dash, a non-ASCII separator that has no decomposition
\* U+00F8, U+00D8: o with stroke, a non-ASCII letter that has no decomposition
CombiningChars == {"acute", "tilde"}
NonAsciiLetters == {"eacute", "atilde", "Atilde", "oslash", "Oslash"}
NonAsciiPunct == {"ndash"}

\* what survives encode("ascii", "ignore"): every other character is ASCII
\* (letters, digits, blank, punctuation)
IsAscii(c) == c \notin CombiningChars \cup NonAsciiLetters \cup NonAsciiPunct

\* unicodedata.normalize("NFKD", .) on one character
NfkdChar(c) ==
    CASE c = "eacute" -> <<"e", "acute">>
      [] c = "atilde" -> <<"a", "tilde">>
      [] c = "Atilde" -> <<"A", "tilde">>
      [] OTHER -> <<c>>

RECURSIVE Nfkd(_)
\* unicodedata.normalize("NFKD", s)
Nfkd(s) == IF s = <<>> THEN <<>> ELSE NfkdChar(Head(s)) \o Nfkd(Tail(s))

\* str.upper on one character
UpperChar(c) ==
    CASE c = "a" -> "A" [] c = "b" -> "B" [] c = "c" -> "C" [] c = "d" -> "D"
      [] c = "e" -> "E" [] c = "f" -> "F" [] c = "g" -> "G" [] c = "h" -> "H"
      [] c = "i" -> "I" [] c = "j" -> "J" [] c = "k" -> "K" [] c = "l" -> "L"
      [] c = "m" -> "M" [] c = "n" -> "N" [] c = "o" -> "O" [] c = "p" -> "P"
      [] c = "q" -> "Q" [] c = "r" -> "R" [] c = "s" -> "S" [] c = "t" -> "T"
      [] c = "u" -> "U" [] c = "v" -> "V" [] c = "w" -> "W" [] c = "x" -> "X"
      [] c = "y" -> "Y" [] c = "z" -> "Z" [] c = "atilde" -> "Atilde" [] c = "oslash" -> "Oslash"
      [] OTHER -> c

\* str.lower on one character
LowerChar(c) ==
    CASE c = "A" -> "a" [] c = "B" -> "b" [] c = "C" -> "c" [] c = "D" -> "d"
      [] c = "E" -> "e" [] c = "F" -> "f" [] c = "G" -> "g" [] c = "H" -> "h"
      [] c = "I" -> "i" [] c = "J" -> "j" [] c = "K" -> "k" [] c = "L" -> "l"
      [] c = "M" -> "m" [] c = "N" -> "n" [] c = "O" -> "o" [] c = "P" -> "p"
      [] c = "Q" -> "q" [] c = "R" -> "r" [] c = "S" -> "s" [] c = "T" -> "t"
      [] c = "U" -> "u" [] c = "V" -> "v" [] c = "W" -> "w" [] c = "X" -> "x"
      [] c = "Y" -> "y" [] c = "Z" -> "z" [] c = "Atilde" -> "atilde" [] c = "Oslash" -> "oslash"
      [] OTHER -> c

\* str.isalnum on one character
IsAlnum(c) == c \in AsciiLower \cup AsciiUpper \cup Digits \cup NonAsciiLetters

RECURSIVE LStrip(_, _)
\* s without its leading characters that are in S
LStrip(s, S) ==
    IF s # <<>> /\ Head(s) \in S THEN LStrip(Tail(s), S) ELSE s

RECURSIVE RStrip(_, _)
\* s without its trailing characters that are in S
RStrip(s, S) ==
    IF s # <<>> /\ s[Len(s)] \in S THEN RStrip(SubSeq(s, 1, Len(s) - 1), S) ELSE s

\* str.strip(): both ends, the characters of S
Strip(s, S) == RStrip(LStrip(s, S), S)

\* ------------------------------------------------------ _normalize_header

\* unicodedata.normalize("NFKD", s).encode("ascii", "ignore").decode("ascii")
AsciiFold(s) == SelectSeq(Nfkd(s), LAMBDA c : IsAscii(c))

\* the loop body with ch.swapcase() in place of ch.upper()
SeparatorOrSwapcase(c) ==
    IF IsAlnum(c) THEN (IF c \in AsciiLower THEN UpperChar(c) ELSE LowerChar(c)) ELSE "_"

\* the loop body: an alphanumeric character upper-cased, any other one "_"
SeparatorOrUpper(c) == IF IsAlnum(c) THEN UpperChar(c) ELSE "_"

RECURSIVE ReplaceDoubleUnderscore(_)
\* s.replace("__", "_"): left to right, occurrences not overlapping
ReplaceDoubleUnderscore(s) ==
    IF Len(s) < 2 THEN s
    ELSE IF s[1] = "_" /\ s[2] = "_"
         THEN <<"_">> \o ReplaceDoubleUnderscore(SubSeq(s, 3, Len(s)))
         ELSE <<s[1]>> \o ReplaceDoubleUnderscore(Tail(s))

HasDoubleUnderscore(s) == \E i \in 1..(Len(s) - 1) : s[i] = "_" /\ s[i + 1] = "_"

RECURSIVE CollapseUnderscores(_)
\* while "__" in s: s = s.replace("__", "_")
CollapseUnderscores(s) ==
    IF HasDoubleUnderscore(s) THEN CollapseUnderscores(ReplaceDoubleUnderscore(s)) ELSE s

NormalizeHeader(name) ==
    LET stripped == Strip(name, SpaceChars)
        folded == AsciiFold(stripped)
        mapped == [i \in DOMAIN folded |-> SeparatorOrUpper(folded[i])]
    IN  Strip(CollapseUnderscores(mapped), {"_"})

\* --------------------------------------------------- specification: headers

\* characters the enumerated header texts are made of
HeaderChars == {"a", "A", "1", " ", "_", "-", "eacute", "acute", "ndash", "oslash"}

HeaderTexts == SeqsUpTo(HeaderChars, MaxLen)

\* the variables of the calls that are not under analysis
IdleCast == cell = NullCell /\ ctype = <<>> /\ cast = NullCell
IdleRead == raw = <<>> /\ schema = <<>> /\ validate = TRUE /\ result = NullCell
IdleNorm == header = <<>> /\ normalized = <<>> /\ renorm = <<>>
IdleLoad == descriptor = NullCell /\ args = NullCell /\ ret = NullCell
IdleFolder == folder = NullCell /\ log = <<>>

InitNorm ==
    /\ pc = "start"
    /\ header \in HeaderTexts
    /\ normalized = <<>>
    /\ renorm = <<>>
    /\ IdleCast
    /\ IdleRead
    /\ IdleLoad
    /\ IdleFolder

\* a call _normalize_header(header)
CallNormalize ==
    /\ pc = "start"
    /\ normalized' = NormalizeHeader(header)
    /\ pc' = "normalized"
    /\ UNCHANGED <<header, renorm, cell, ctype, cast, raw, schema, validate, result,
                 descriptor, folder, args, ret, log>>

\* the result normalised again, as _build_header_renamer does with a schema
\* name that is already in normal form
CallNormalizeAgain ==
    /\ pc = "normalized"
    /\ renorm' = NormalizeHeader(normalized)
    /\ pc' = "renormalized"
    /\ UNCHANGED <<header, normalized, cell, ctype, cast, raw, schema, validate, result,
                 descriptor, folder, args, ret, log>>

NextNorm == CallNormalize \/ CallNormalizeAgain

SpecNorm == InitNorm /\ [][NextNorm]_vars

\* the normalisation the documentation describes: trim whitespace, decompose
\* and drop the combining marks, every remaining character that is not
\* alphanumeric becomes "_", upper-case, runs of "_" become one "_", trim "_"
RemoveDiacritics(s) == SelectSeq(Nfkd(s), LAMBDA c : c \notin CombiningChars)

RECURSIVE SqueezeUnderscores(_)
SqueezeUnderscores(s) ==
    IF Len(s) < 2 THEN s
    ELSE IF s[1] = "_" /\ s[2] = "_" THEN SqueezeUnderscores(Tail(s))
         ELSE <<s[1]>> \o SqueezeUnderscores(Tail(s))

DocumentedNormalize(s) ==
    LET bare == RemoveDiacritics(Strip(s, SpaceChars))
        upper == [i \in DOMAIN bare |-> IF IsAlnum(bare[i]) THEN UpperChar(bare[i]) ELSE "_"]
    IN  Strip(SqueezeUnderscores(upper), {"_"})

\* upper-case letters, digits and single interior underscores only
WellFormedNormalized(s) ==
    /\ \A i \in DOMAIN s : s[i] \in AsciiUpper \cup Digits \cup {"_"}
    /\ ~HasDoubleUnderscore(s)
    /\ s # <<>> => s[1] # "_" /\ s[Len(s)] # "_"

\* C4: _normalize_header returns, for every header, the result of trimming
\* whitespace, removing combining marks, replacing every remaining
\* non-alphanumeric character by "_", upper-casing, collapsing underscores
\* and trimming them; the output is upper-case letters, digits and single
\* interior underscores.
C4_NormalizeAsDocumented ==
    pc \in {"normalized", "renormalized"} =>
        /\ normalized = DocumentedNormalize(header)
        /\ WellFormedNormalized(normalized)

\* C5: normalising an already normalised header changes nothing.
C5_NormalizeIdempotent ==
    pc = "renormalized" => renorm = normalized

\* C5 witness: a header that normalisation changed has been normalised twice
C5_Witness ==
    /\ pc = "renormalized"
    /\ normalized # header
    /\ normalized # <<>>
    /\ \E i \in DOMAIN normalized : normalized[i] = "_"

\* ------------------------------------------------------------ _apply_schema

\* longest cell text enumerated for the casts
MaxCellLen == 3

BoolCell(b) == [tag |-> "bool", b |-> b]
\* an Int64 cell
IntCell(v) == [tag |-> "int", v |-> v]
\* a Float64 cell holding mant / 10^frac, mant not a multiple of 10 unless frac = 0
FloatCell(mant, frac) == [tag |-> "float", mant |-> mant, frac |-> frac]

\* what to_numeric could not parse
NaN == [tag |-> "nan"]

RECURSIVE Reduce(_, _)
\* mant / 10^frac without trailing zeros in the fraction
Reduce(mant, frac) ==
    IF frac > 0 /\ mant % 10 = 0 THEN Reduce(mant \div 10, frac - 1) ELSE FloatCell(mant, frac)

DigitValue(c) ==
    CASE c = "0" -> 0 [] c = "1" -> 1 [] c = "2" -> 2 [] c = "3" -> 3 [] c = "4" -> 4
      [] c = "5" -> 5 [] c = "6" -> 6 [] c = "7" -> 7 [] c = "8" -> 8 [] c = "9" -> 9

RECURSIVE DigitsValue(_)
\* the natural number a string of digits writes
DigitsValue(ds) ==
    IF ds = <<>> THEN 0
    ELSE 10 * DigitsValue(SubSeq(ds, 1, Len(ds) - 1)) + DigitValue(ds[Len(ds)])

AllDigits(s) == \A i \in DOMAIN s : s[i] \in Digits

\* Series.astype(str) on one cell: the missing value becomes the text "<NA>"
AsStr(c) == IF c.tag = "null" THEN <<"<", "N", "A", ">">> ELSE c.text

\* str.replace(ch, "")
RemoveChar(s, ch) == SelectSeq(s, LAMBDA c : c # ch)

\* str.replace(from, to), one character for one character
ReplaceChar(s, from, to) == [i \in DOMAIN s |-> IF s[i] = from THEN to ELSE s[i]]

\* the rewrite of to_float_ptbr carried into the caster: ";" is a decimal separator too
NumericRewriteSemicolon(s) == ReplaceChar(ReplaceChar(RemoveChar(s, "."), ",", "."), ";", ".")

\* .str.replace(".", "", regex=False).str.replace(",", ".", regex=False)
NumericRewrite(s) == ReplaceChar(RemoveChar(s, "."), ",", ".")

\* pd.to_numeric(errors="coerce") on one text: blanks around the number are
\* skipped, then an optional sign, digits, an optional "." and digits, with
\* at least one digit; anything else is NaN
ToNumeric(s) ==
    LET t == Strip(s, SpaceChars)
        signed == t # <<>> /\ t[1] \in {"-", "+"}
        u == IF signed THEN Tail(t) ELSE t
        dots == {i \in DOMAIN u : u[i] = "."}
        ip == IF dots = {} THEN u ELSE SubSeq(u, 1, (CHOOSE i \in dots : TRUE) - 1)
        fp == IF dots = {} THEN <<>> ELSE SubSeq(u, (CHOOSE i \in dots : TRUE) + 1, Len(u))
        sign == IF signed /\ t[1] = "-" THEN -1 ELSE 1
    IN  IF Cardinality(dots) > 1 \/ ~AllDigits(ip) \/ ~AllDigits(fp) \/ Len(ip) + Len(fp) = 0
        THEN NaN
        ELSE Reduce(sign * DigitsValue(ip \o fp), Len(fp))

\* the outcome of a cast of one column: the cells, or the exception raised
Cells(cs) == [tag |-> "ok", cells |-> cs, exc |-> "none"]
Raise(e) == [tag |-> "raise", cells |-> <<>>, exc |-> e]

\* .astype("Float64") on the parsed column
AsFloat64(nums) ==
    Cells([i \in DOMAIN nums |-> IF nums[i].tag = "nan" THEN NullCell ELSE nums[i]])

\* .astype("Int64") on the parsed column: a value with a fractional part
\* cannot be cast safely and raises TypeError
AsInt64(nums) ==
    IF \E i \in DOMAIN nums : nums[i].tag = "float" /\ nums[i].frac > 0
    THEN Raise("TypeError")
    ELSE Cells([i \in DOMAIN nums |->
                   IF nums[i].tag = "nan" THEN NullCell ELSE IntCell(nums[i].mant)])

TrueTokens ==
    {<<"t", "r", "u", "e">>, <<"t">>, <<"1">>, <<"s", "i", "m">>, <<"y", "e", "s">>, <<"y">>}
FalseTokens ==
    {<<"f", "a", "l", "s", "e">>, <<"f">>, <<"0">>, <<"n", "a", "o">>,
     <<"n", "atilde", "o">>, <<"n", "o">>, <<"n">>}

\* str.lower
Lower(s) == [i \in DOMAIN s |-> LowerChar(s[i])]

\* the boolean cast without .str.strip()
CastBoolCellNoStrip(c) ==
    IF c.tag = "null" THEN NullCell
    ELSE LET tok == Lower(c.text)
         IN  IF tok \in TrueTokens THEN BoolCell(TRUE)
             ELSE IF tok \in FalseTokens THEN BoolCell(FALSE)
             ELSE NullCell

\* s.astype("string").str.strip().str.lower().map({...}).astype("boolean")
CastBoolCell(c) ==
    IF c.tag = "null" THEN NullCell
    ELSE LET tok == Lower(Strip(c.text, SpaceChars))
         IN  IF tok \in TrueTokens THEN BoolCell(TRUE)
             ELSE IF tok \in FalseTokens THEN BoolCell(FALSE)
             ELSE NullCell

\* the string cast with the text trimmed
CastStringCellTrim(c) ==
    IF c.tag = "null" THEN NullCell ELSE TextCell(Strip(c.text, SpaceChars))

\* s.astype("string"): the text as it is, the missing value stays missing
CastStringCell(c) == c

\* tkey = str(type_txt).strip().lower()
TypeKey(typeText) == Lower(Strip(typeText, SpaceChars))

TypeString == <<"s", "t", "r", "i", "n", "g">>
IntKeys == {<<"i", "n", "t">>, <<"i", "n", "t", "6", "4">>, <<"i", "n", "t", "e", "g", "e", "r">>}
FloatKeys == {<<"f", "l", "o", "a", "t">>, <<"f", "l", "o", "a", "t", "6", "4">>,
              <<"n", "u", "m", "b", "e", "r">>}
BoolKeys == {<<"b", "o", "o", "l">>, <<"b", "o", "o", "l", "e", "a", "n">>}
CategoryKey == <<"c", "a", "t", "e", "g", "o", "r", "y">>

\* casting loop that refuses a type key outside the branches
CastColumnStrict(cells, typeText) ==
    LET tkey == TypeKey(typeText)
        nums == [i \in DOMAIN cells |-> ToNumeric(NumericRewrite(AsStr(cells[i])))]
    IN  CASE tkey \in IntKeys -> AsInt64(nums)
          [] tkey \in FloatKeys -> AsFloat64(nums)
          [] tkey \in BoolKeys -> Cells([i \in DOMAIN cells |-> CastBoolCell(cells[i])])
          [] tkey = CategoryKey -> Cells(cells)
          [] tkey = TypeString -> Cells([i \in DOMAIN cells |-> CastStringCell(cells[i])])
          [] OTHER -> Raise("ValueError")

\* the body of the casting loop for one column that is a Series (the date and
\* datetime branches are left out: no declared type drawn below selects them)
CastColumn(cells, typeText) ==
    LET tkey == TypeKey(typeText)
        nums == [i \in DOMAIN cells |-> ToNumeric(NumericRewrite(AsStr(cells[i])))]
    IN  CASE tkey \in IntKeys -> AsInt64(nums)
          [] tkey \in FloatKeys -> AsFloat64(nums)
          [] tkey \in BoolKeys -> Cells([i \in DOMAIN cells |-> CastBoolCell(cells[i])])
          [] tkey = CategoryKey -> Cells(cells)
          [] OTHER -> Cells([i \in DOMAIN cells |-> CastStringCell(cells[i])])

\* ----------------------------------------------------- specification: casts

\* characters the enumerated numeric cell texts are made of
NumberChars == {"1", "0", "5", ".", ",", ";", "-", " ", "z"}
\* characters the enumerated boolean cell texts are made of
TokenChars == {"s", "i", "m", "S", "n", "a", "o", "atilde", "1", " "}

\* the texts of the documentation's examples
Text_1_234_56 == <<"1", ".", "2", "3", "4", ",", "5", "6">>
Text_84_51 == <<"8", "4", ";", "5", "1">>
Text_Sim == <<"S", "i", "m">>
Text_SIM_padded == <<" ", "S", "I", "M", " ">>
Text_talvez == <<"t", "a", "l", "v", "e", "z">>
Text_NAO == <<"N", "Atilde", "O">>

CellTexts ==
    SeqsUpTo(NumberChars, MaxCellLen) \cup SeqsUpTo(TokenChars, MaxCellLen)
        \cup {Text_1_234_56, Text_84_51, Text_Sim, Text_SIM_padded, Text_talvez, Text_NAO,
              <<"t", "r", "u", "e">>, <<"T", "r", "u", "e">>, <<"f", "a", "l", "s", "e">>,
              <<"y", "e", "s">>, <<"y">>, <<"t">>, <<"f">>, <<"N">>}

\* declared type texts: the tags of _TYPE_MAP in several spellings, and a
\* text that is no tag
TypeTexts ==
    {<<"s", "t", "r", "i", "n", "g">>,
     <<"i", "n", "t">>, <<"I", "n", "t", "e", "g", "e", "r">>,
     <<"f", "l", "o", "a", "t">>, <<" ", "N", "U", "M", "B", "E", "R", " ">>,
     <<"b", "o", "o", "l">>, <<"B", "o", "o", "l", "e", "a", "n">>,
     <<"c", "a", "t", "e", "g", "o", "r", "y">>,
     <<"v", "a", "r", "c", "h", "a", "r">>}

InitCast ==
    /\ pc = "start"
    /\ cell \in {NullCell} \cup {TextCell(t) : t \in CellTexts}
    /\ ctype \in TypeTexts
    /\ cast = NullCell
    /\ IdleNorm
    /\ IdleRead
    /\ IdleLoad
    /\ IdleFolder

\* the casting loop of _apply_schema on a column holding the one cell
CallCast ==
    /\ pc = "start"
    /\ cast' = CastColumn(<<cell>>, ctype)
    /\ pc' = "cast"
    /\ UNCHANGED <<header, normalized, renorm, cell, ctype, raw, schema, validate, result,
                 descriptor, folder, args, ret, log>>

NextCast == CallCast

SpecCast == InitCast /\ [][NextCast]_vars

\* the column under analysis is declared integer / float / boolean / string
IsIntColumn == TypeKey(ctype) \in IntKeys
IsFloatColumn == TypeKey(ctype) \in FloatKeys
IsBoolColumn == TypeKey(ctype) \in BoolKeys
IsStringColumn == TypeKey(ctype) \notin IntKeys \cup FloatKeys \cup BoolKeys \cup {CategoryKey}

\* s is t with blanks added at its ends
IsPadded(s, t) ==
    \E i \in 1..(Len(s) + 1) :
        /\ i + Len(t) - 1 <= Len(s)
        /\ SubSeq(s, i, i + Len(t) - 1) = t
        /\ \A k \in DOMAIN s : (k < i \/ k > i + Len(t) - 1) => s[k] = " "

\* the text without the blanks at its ends
Trimmed(s) ==
    CHOOSE t \in {SubSeq(s, i, j) : i \in 1..(Len(s) + 1), j \in 0..Len(s)} :
        /\ IsPadded(s, t)
        /\ t # <<>> => t[1] # " " /\ t[Len(t)] # " "

\* the number a text denotes under the Brazilian convention: periods group
\* the thousands, one comma at most separates the decimals
DenotedNumber(s) ==
    LET t == Trimmed(SelectSeq(s, LAMBDA c : c # "."))
        signed == t # <<>> /\ t[1] \in {"-", "+"}
        u == IF signed THEN Tail(t) ELSE t
        commas == {i \in DOMAIN u : u[i] = ","}
        k == IF commas = {} THEN Len(u) + 1 ELSE CHOOSE i \in commas : TRUE
        whole == SubSeq(u, 1, k - 1)
        decimals == SubSeq(u, k + 1, Len(u))
    IN  IF Cardinality(commas) <= 1 /\ AllDigits(whole) /\ AllDigits(decimals)
           /\ Len(whole) + Len(decimals) > 0
        THEN Reduce((IF signed /\ t[1] = "-" THEN -1 ELSE 1) * DigitsValue(whole \o decimals),
                    Len(decimals))
        ELSE NaN

\* a cast cell read as a number
NumberOf(c) == IF c.tag = "int" THEN FloatCell(c.v, 0) ELSE c

\* C6: per-cell casting never raises: for every cell and every declared type
\* _apply_schema completes, and a cell that cannot be parsed as its column's
\* type is null (an integer column holding "1,5" included).
C6_CastNeverRaises ==
    pc = "cast" =>
        /\ cast.tag = "ok"
        /\ (IsIntColumn \/ IsFloatColumn) /\ DenotedNumber(AsStr(cell)) = NaN
              => cast.cells = <<NullCell>>

\* C7: in integer and float columns the cast value of a text cell is the
\* number the text denotes under the Brazilian convention, and text that is
\* no number gives null rather than an error.
C7_BrazilianNumber ==
    (pc = "cast" /\ cell.tag = "text" /\ (IsIntColumn \/ IsFloatColumn)) =>
        /\ cast.tag = "ok"
        /\ LET d == DenotedNumber(cell.text)
           IN  IF d = NaN THEN cast.cells = <<NullCell>>
               ELSE NumberOf(cast.cells[1]) = d

HasSemicolon(s) == \E i \in DOMAIN s : s[i] = ";"

\* C8 as stated: the float cast of "84;51" is 84.51
C8_SemicolonDecimal ==
    (pc = "cast" /\ IsFloatColumn /\ cell = TextCell(Text_84_51)) =>
        cast = Cells(<<FloatCell(8451, 2)>>)

\* C8: the float cast of "84;51", and of any text holding a semicolon, is
\* null: the Type Caster rewrites periods and commas only.
C8_SemicolonIsNull ==
    (pc = "cast" /\ IsFloatColumn /\ cell.tag = "text" /\ HasSemicolon(cell.text)) =>
        cast = Cells(<<NullCell>>)

\* C8 witness: "84;51" has been cast in a float column
C8_Witness ==
    /\ pc = "cast" /\ IsFloatColumn /\ cell = TextCell(Text_84_51)
    /\ cast.tag = "ok" /\ cast.cells[1].tag = "null"

StatedTrueTokens ==
    {<<"t", "r", "u", "e">>, <<"t">>, <<"1">>, <<"s", "i", "m">>, <<"y", "e", "s">>, <<"y">>}
StatedFalseTokens ==
    {<<"f", "a", "l", "s", "e">>, <<"f">>, <<"0">>, <<"n", "a", "o">>,
     <<"n", "atilde", "o">>, <<"n", "o">>, <<"n">>}

\* C9: the boolean cast of a cell depends only on its text trimmed and
\* lower-cased: true for exactly {true, t, 1, sim, yes, y}, false for exactly
\* {false, f, 0, nao, não, no, n}, null for any other text and for null.
C9_BooleanTokens ==
    (pc = "cast" /\ IsBoolColumn) =>
        /\ cast.tag = "ok"
        /\ cell.tag = "null" => cast.cells = <<NullCell>>
        /\ cell.tag = "text" =>
              LET tok == Lower(Trimmed(cell.text))
              IN  /\ cast.cells[1] = BoolCell(TRUE) <=> tok \in StatedTrueTokens
                  /\ cast.cells[1] = BoolCell(FALSE) <=> tok \in StatedFalseTokens
                  /\ cast.cells[1] = NullCell <=> tok \notin StatedTrueTokens \cup StatedFalseTokens
        /\ cell \in {TextCell(Text_Sim), TextCell(Text_SIM_padded), TextCell(<<"s", "i", "m">>)}
              => cast.cells = <<BoolCell(TRUE)>>
        /\ cell = TextCell(Text_talvez) => cast.cells = <<NullCell>>

\* C9 witness: " SIM " has been cast to true in a boolean column
C9_Witness ==
    /\ pc = "cast" /\ IsBoolColumn /\ cell = TextCell(Text_SIM_padded)
    /\ cast.cells = <<BoolCell(TRUE)>>

\* C10 as stated: the string cast of a cell is its text trimmed, null stays null
C10_StringTrimmed ==
    (pc = "cast" /\ IsStringColumn) =>
        /\ cast.tag = "ok"
        /\ cell.tag = "null" => cast.cells = <<NullCell>>
        /\ cell.tag = "text" => cast.cells = <<TextCell(Trimmed(cell.text))>>

\* C10: the string cast (and the fallback for a type that is no tag) of a
\* cell is its text as it is, blanks at the ends included; null stays null.
C10_StringUnchanged ==
    (pc = "cast" /\ IsStringColumn) =>
        /\ cast.tag = "ok"
        /\ cell.tag = "null" => cast.cells = <<NullCell>>
        /\ cell.tag = "text" => cast.cells = <<TextCell(cell.text)>>

\* C10 witness: a text with blanks at its ends has been cast in a string column
C10_Witness ==
    /\ pc = "cast" /\ IsStringColumn /\ cell.tag = "text"
    /\ Trimmed(cell.text) # cell.text /\ Trimmed(cell.text) # <<>>
    /\ cast.cells = <<cell>>

\* ------------------------------------------------------------------- read()

\* most columns of a raw table
MaxCols == 2
\* most entries of the schema's "columns" list
MaxSchemaCols == 2

\* a Python dict: the entries in insertion order
DictHas(d, k) == \E i \in DOMAIN d : d[i].k = k
DictGet(d, k) == d[CHOOSE i \in DOMAIN d : d[i].k = k].v
DictKeys(d) == [i \in DOMAIN d |-> d[i].k]
\* d[k] = v: a new key goes last, a present key keeps its place
DictSet(d, k, v) ==
    IF DictHas(d, k)
    THEN [i \in DOMAIN d |-> IF d[i].k = k THEN [k |-> k, v |-> v] ELSE d[i]]
    ELSE Append(d, [k |-> k, v |-> v])

RECURSIVE DictSetAll(_, _)
\* d[e.k] = e.v for the entries e of es, in order
DictSetAll(d, es) ==
    IF es = <<>> THEN d ELSE DictSetAll(DictSet(d, Head(es).k, Head(es).v), Tail(es))


\* the "columns" branch of _extract_schema_mapping: name -> (type or "string")
\* for the entries that have a name
ExtractSchemaMapping(cols) ==
    LET named == SelectSeq(cols, LAMBDA c : c.name # <<>>)
    IN  DictSetAll(<<>>, [i \in DOMAIN named |->
            [k |-> named[i].name,
             v |-> IF named[i].type = <<>> THEN TypeString ELSE named[i].type]])

\* _extract_column_names: the names of the entries that have one
ExtractColumnNames(cols) ==
    LET named == SelectSeq(cols, LAMBDA c : c.name # <<>>)
    IN  [i \in DOMAIN named |-> named[i].name]

\* the loaded schema (the dict json.load returns): the list under "columns"
\* and the list under "fields" when the key holds a list, and the other
\* top-level keys in file order, each with its value (str tells whether the
\* value is a JSON string)
Blob(hasColumns, columns, hasFields, fields, entries) ==
    [hasColumns |-> hasColumns, columns |-> columns,
     hasFields |-> hasFields, fields |-> fields, entries |-> entries]
Entry(k, v, str) == [k |-> k, v |-> v, str |-> str]

\* a schema with the one key "columns"
ColumnsBlob(cols) == Blob(TRUE, cols, FALSE, <<>>, <<>>)

\* `not blob`: the empty dict
IsEmptyBlob(blob) == ~blob.hasColumns /\ ~blob.hasFields /\ blob.entries = <<>>

Key_delimiter == <<"d", "e", "l", "i", "m", "i", "t", "e", "r">>
Key_encoding == <<"e", "n", "c", "o", "d", "i", "n", "g">>
\* known_cfg: the top-level keys that are settings, not columns
KnownCfg ==
    {Key_delimiter,
     Key_encoding,
     <<"e", "x", "c", "e", "l", "_", "h", "a", "s", "_", "h", "e", "a", "d", "e", "r">>,
     <<"e", "x", "c", "e", "l", "_", "s", "t", "a", "r", "t", "_", "r", "o", "w">>,
     <<"e", "x", "c", "e", "l", "_", "f", "i", "l", "l", "_", "e", "m", "p", "t", "y", "_", "w", "i", "t", "h">>,
     <<"e", "x", "c", "e", "l", "_", "r", "e", "a", "d", "_", "a", "l", "l", "_", "a", "s", "_", "s", "t", "r">>,
     <<"e", "x", "c", "e", "l", "_", "i", "n", "d", "e", "x", "_", "c", "o", "l">>,
     <<"s", "h", "e", "e", "t", "_", "n", "a", "m", "e">>}

\* blob.get(key): the value of a top-level key, <<>> standing for None
BlobGet(blob, key) ==
    LET at == {i \in DOMAIN blob.entries : blob.entries[i].k = key}
    IN  IF at = {} THEN <<>> ELSE blob.entries[CHOOSE i \in at : TRUE].v

\* _extract_schema_mapping: the named entries of "columns", or else those of
\* "fields", or else the top-level keys that are no setting and hold a
\* string; <<>> stands for None and for the empty dict alike
ExtractSchemaMappingOf(blob) ==
    LET fromColumns == IF blob.hasColumns THEN ExtractSchemaMapping(blob.columns) ELSE <<>>
        fromFields == IF blob.hasFields THEN ExtractSchemaMapping(blob.fields) ELSE <<>>
        flat == SelectSeq(blob.entries, LAMBDA e : e.k \notin KnownCfg /\ e.str)
    IN  IF IsEmptyBlob(blob) THEN <<>>
        ELSE IF fromColumns # <<>> THEN fromColumns
        ELSE IF fromFields # <<>> THEN fromFields
        ELSE DictSetAll(<<>>, [i \in DOMAIN flat |-> [k |-> flat[i].k, v |-> flat[i].v]])

\* _extract_column_names: the names of the entries of "columns" when the key
\* holds a list, else of "fields" when that one does; <<>> stands for None
ExtractColumnNamesOf(blob) ==
    IF IsEmptyBlob(blob) THEN <<>>
    ELSE IF blob.hasColumns THEN ExtractColumnNames(blob.columns)
    ELSE IF blob.hasFields THEN ExtractColumnNames(blob.fields)
    ELSE <<>>

\* the entries _build_header_renamer reads the aliases of: those of
\* "columns", then those of "fields"
AliasColumns(blob) ==
    (IF blob.hasColumns THEN blob.columns ELSE <<>>)
        \o (IF blob.hasFields THEN blob.fields ELSE <<>>)

\* the alias declarations of one schema entry, in the order the code reads
\* them: source, source_name, then the aliases
AliasEntries(coldef) ==
    LET given == SelectSeq(<<coldef.source, coldef.source_name>>, LAMBDA a : a # <<>>)
                    \o coldef.aliases
    IN  [i \in DOMAIN given |-> [k |-> NormalizeHeader(given[i]), v |-> coldef.name]]

RECURSIVE AliasToTarget(_)
AliasToTarget(cols) ==
    IF cols = <<>> THEN <<>>
    ELSE LET c == cols[Len(cols)]
             before == AliasToTarget(SubSeq(cols, 1, Len(cols) - 1))
         IN  IF c.name = <<>> THEN before ELSE DictSetAll(before, AliasEntries(c))

\* renamer with the alias lookup made before the lookup of the expected names
BuildHeaderRenamerAliasFirst(got_cols, expected_cols, cols) ==
    LET exp_norm_map ==
            DictSetAll(<<>>, [i \in DOMAIN expected_cols |->
                [k |-> NormalizeHeader(expected_cols[i]), v |-> expected_cols[i]]])
        alias_to_target == AliasToTarget(cols)
        mapped == SelectSeq(got_cols, LAMBDA g :
            DictHas(exp_norm_map, NormalizeHeader(g)) \/ DictHas(alias_to_target, NormalizeHeader(g)))
    IN  DictSetAll(<<>>, [i \in DOMAIN mapped |->
            [k |-> mapped[i],
             v |-> IF DictHas(alias_to_target, NormalizeHeader(mapped[i]))
                   THEN DictGet(alias_to_target, NormalizeHeader(mapped[i]))
                   ELSE DictGet(exp_norm_map, NormalizeHeader(mapped[i]))]])

\* _build_header_renamer: raw header -> schema name, for the headers whose
\* normal form is that of an expected name or else that of a declared alias
BuildHeaderRenamer(got_cols, expected_cols, cols) ==
    LET exp_norm_map ==
            DictSetAll(<<>>, [i \in DOMAIN expected_cols |->
                [k |-> NormalizeHeader(expected_cols[i]), v |-> expected_cols[i]]])
        alias_to_target == AliasToTarget(cols)
        mapped == SelectSeq(got_cols, LAMBDA g :
            DictHas(exp_norm_map, NormalizeHeader(g)) \/ DictHas(alias_to_target, NormalizeHeader(g)))
    IN  DictSetAll(<<>>, [i \in DOMAIN mapped |->
            [k |-> mapped[i],
             v |-> IF DictHas(exp_norm_map, NormalizeHeader(mapped[i]))
                   THEN DictGet(exp_norm_map, NormalizeHeader(mapped[i]))
                   ELSE DictGet(alias_to_target, NormalizeHeader(mapped[i]))]])

\* a table: its columns in order, each a label and the cells of its rows
Labels(table) == [i \in DOMAIN table |-> table[i].label]
NRows(table) == IF table = <<>> THEN 0 ELSE Len(table[1].cells)

\* df.rename(columns=renamer)
Rename(table, renamer) ==
    [i \in DOMAIN table |->
        [label |-> IF DictHas(renamer, table[i].label) THEN DictGet(renamer, table[i].label)
                   ELSE table[i].label,
         cells |-> table[i].cells]]

\* validation that reports the missing columns only
ValidateColumnsMissingOnly(got, expected) ==
    [missing |-> SelectSeq(expected, LAMBDA c : c \notin Range(got)), extra |-> <<>>]

\* _validate_columns: the expected names the file lacks and the labels of
\* the file that are no expected name; it raises when either list is not empty
ValidateColumns(got, expected) ==
    [missing |-> SelectSeq(expected, LAMBDA c : c \notin Range(got)),
     extra |-> SelectSeq(got, LAMBDA c : c \notin Range(expected))]

\* the outcome of _apply_schema: the typed table, or the exception raised
Typed(table) == [tag |-> "ok", table |-> table, exc |-> "none"]
Aborted(e) == [tag |-> "raise", table |-> <<>>, exc |-> e]

\* out[col] = pd.NA for the schema columns the table lacks, in schema order
WithMissingColumns(table, keys) ==
    LET absent == SelectSeq(keys, LAMBDA k : k \notin Range(Labels(table)))
    IN  table \o [i \in DOMAIN absent |->
                     [label |-> absent[i], cells |-> [r \in 1..NRows(table) |-> NullCell]]]

RECURSIVE SelectColumns(_, _)
\* out[list(schema.keys())]: for each key in order, every column so labelled
SelectColumns(table, keys) ==
    IF keys = <<>> THEN <<>>
    ELSE SelectSeq(table, LAMBDA c : c.label = Head(keys)) \o SelectColumns(table, Tail(keys))

\* one turn of the casting loop: s = out[col] is a Series when one column
\* bears the label; when several do it is a DataFrame, which has no .str
\* accessor (integer, float, boolean) and is assigned back as it is by astype
\* (category, string)
CastLabel(table, col, typeText) ==
    LET at == {i \in DOMAIN table : table[i].label = col}
        tkey == TypeKey(typeText)
    IN  IF Cardinality(at) = 1
        THEN LET i == CHOOSE j \in at : TRUE
                 r == CastColumn(table[i].cells, typeText)
             IN  IF r.tag = "raise" THEN Aborted(r.exc)
                 ELSE Typed([table EXCEPT ![i].cells = r.cells])
        ELSE IF tkey \in IntKeys \cup FloatKeys \cup BoolKeys
             THEN Aborted("AttributeError")
             ELSE Typed(table)

RECURSIVE CastLoop(_, _)
\* for col, type_txt in schema.items(): ...
CastLoop(table, items) ==
    IF items = <<>> THEN Typed(table)
    ELSE LET r == CastLabel(table, Head(items).k, Head(items).v)
         IN  IF r.tag = "raise" THEN r ELSE CastLoop(r.table, Tail(items))

\* _apply_schema
ApplySchema(table, schema_map) ==
    LET keys == DictKeys(schema_map)
    IN  CastLoop(SelectColumns(WithMissingColumns(table, keys), keys), schema_map)

\* the outcome of read()
Outcome(kind, table, renamed, missing, extra, exc) ==
    [kind |-> kind, table |-> table, renamed |-> renamed,
     missing |-> missing, extra |-> extra, exc |-> exc]

\* expected_order = column_names or list(schema_map.keys())
ExpectedOrder(column_names, schema_map) ==
    IF column_names # <<>> THEN column_names ELSE DictKeys(schema_map)

\* read() once _apply_schema has returned typed
ReadTyped(renamed, typed) ==
    IF typed.tag = "raise"
    THEN Outcome("CastError", <<>>, Labels(renamed), <<>>, <<>>, typed.exc)
    ELSE Outcome("ok", typed.table, Labels(renamed), <<>>, <<>>, "none")

\* read() once the headers are compared with the schema: HeaderMismatch when
\* validation is asked for and finds a difference, else the types applied
ReadChecked(validate_columns, schema_map, expected_order, renamed, checked) ==
    IF validate_columns /\ expected_order # <<>>
            /\ (checked.missing # <<>> \/ checked.extra # <<>>)
    THEN Outcome("HeaderMismatch", <<>>, Labels(renamed), checked.missing, checked.extra,
                 "ValueError")
    ELSE ReadTyped(renamed, ApplySchema(renamed, schema_map))

\* read() once the headers are renamed
ReadRenamed(validate_columns, schema_map, expected_order, renamed) ==
    ReadChecked(validate_columns, schema_map, expected_order, renamed,
                ValidateColumns(Labels(renamed), expected_order))

\* read() once the schema mapping and the expected order are extracted:
\* EmptySchema, or the headers renamed
ReadExpected(df, blob, validate_columns, schema_map, expected_order) ==
    IF schema_map = <<>>
    THEN Outcome("EmptySchema", <<>>, <<>>, <<>>, <<>>, "ValueError")
    ELSE ReadRenamed(validate_columns, schema_map, expected_order,
                     Rename(df, BuildHeaderRenamer(Labels(df), expected_order,
                                                   AliasColumns(blob))))

\* read(), from the table the format reader returns to the value returned
\* or the error raised, for the loaded schema blob
ReadTable(df, blob, validate_columns) ==
    ReadExpected(df, blob, validate_columns, ExtractSchemaMappingOf(blob),
                 ExpectedOrder(ExtractColumnNamesOf(blob), ExtractSchemaMappingOf(blob)))

\* read() for a schema whose one key is "columns"
Read(df, cols, validate_columns) == ReadTable(df, ColumnsBlob(cols), validate_columns)

\* --------------------------------------------------- specification: read()

Name_A == <<"A">>
Name_B == <<"B">>

ColDef(name, type, source, source_name, aliases) ==
    [name |-> name, type |-> type, source |-> source, source_name |-> source_name,
     aliases |-> aliases]

\* the entries the schemas are made of: three names, two of them with the
\* same normal form, four types, a type that is no branch of the casting loop
\* ("text"), a missing type, a missing name, aliases of
\* the three kinds; the alias "a" of B has the normal form of the name A, and
\* two entries declare A
ColDefs ==
    {ColDef(Name_A, TypeString, <<>>, <<>>, <<>>),
     ColDef(<<"a">>, <<"t", "e", "x", "t">>, <<>>, <<>>, <<>>),
     ColDef(Name_B, <<"i", "n", "t">>, <<>>, <<>>, << <<"a">> >>),
     ColDef(Name_B, <<>>, <<"z">>, <<>>, <<>>),
     ColDef(Name_A, <<"f", "l", "o", "a", "t">>, <<>>, <<"b", "-">>, <<>>),
     ColDef(<<>>, <<"b", "o", "o", "l">>, <<>>, <<>>, << <<"q">> >>)}

Schemas == SeqsUpTo(ColDefs, MaxSchemaCols) \ {<<>>}

\* the labels of the raw tables
RawLabels == {<<"a">>, <<"A">>, <<" ", "b">>, <<"z">>, <<"q">>}

\* the cells of a raw column: one row
RawCells == {<<TextCell(<<" ", "1">>)>>, <<TextCell(<<"1", ",", "5">>)>>}

\* the tables a format reader returns: the labels are pairwise distinct, and
\* every column holds the same cells
RawTables ==
    {[i \in DOMAIN ls |-> [label |-> ls[i], cells |-> cs]] :
        ls \in {t \in SeqsUpTo(RawLabels, MaxCols) : \A i, j \in DOMAIN t : i # j => t[i] # t[j]},
        cs \in RawCells}

InitRead ==
    /\ pc = "start"
    /\ schema \in Schemas
    /\ raw = <<>>
    /\ validate = TRUE
    /\ result = NullCell
    /\ IdleNorm
    /\ IdleCast
    /\ IdleLoad
    /\ IdleFolder

\* a call read(path, schema_filename=..., validate_columns=...) whose format
\* reader returns the table df
CallRead ==
    /\ pc = "start"
    /\ \E df \in RawTables, validate_columns \in BOOLEAN :
          /\ raw' = df
          /\ validate' = validate_columns
          /\ result' = Read(df, schema, validate_columns)
    /\ pc' = "done"
    /\ UNCHANGED <<header, normalized, renorm, cell, ctype, cast, schema,
                 descriptor, folder, args, ret, log>>

NextRead == CallRead

SpecRead == InitRead /\ [][NextRead]_vars

\* the names the schema declares, each once, in the order of first mention
SchemaOrder ==
    LET at == {i \in DOMAIN schema :
                  /\ schema[i].name # <<>>
                  /\ \A h \in 1..(i - 1) : schema[h].name # schema[i].name}
        Nth[n \in 1..Cardinality(at)] ==
            CHOOSE i \in at : Cardinality({h \in at : h < i}) = n - 1
    IN  [n \in 1..Cardinality(at) |-> schema[Nth[n]].name]

SchemaNames == {schema[i].name : i \in DOMAIN schema} \ {<<>>}

\* C1: the table _apply_schema produces, hence the one a successful read()
\* returns, has exactly the schema's column names in schema order as its
\* columns; a schema column the input lacks is there with every cell null,
\* and an input column the schema does not name is absent.
C1_ColumnsAreSchema ==
    (pc = "done" /\ result.kind = "ok") =>
        /\ Labels(result.table) = SchemaOrder
        /\ \A i \in DOMAIN result.table :
              result.table[i].label \notin Range(result.renamed)
                  => \A r \in DOMAIN result.table[i].cells :
                         result.table[i].cells[r] = NullCell

\* C2: with validate_columns=True read() fails with HeaderMismatch exactly
\* when the set of labels after renaming differs from the set of schema
\* names (casting not yet attempted); the error lists exactly the schema
\* names not among the labels and exactly the labels that are no schema name;
\* with validate_columns=False it never fails so.
C2_HeaderMismatchIff ==
    (pc = "done" /\ result.kind # "EmptySchema") =>
        LET got == Range(result.renamed)
        IN  /\ validate => (result.kind = "HeaderMismatch" <=> got # SchemaNames)
            /\ ~validate => result.kind # "HeaderMismatch"
            /\ result.kind = "HeaderMismatch" =>
                  /\ Range(result.missing) = SchemaNames \ got
                  /\ Range(result.extra) = got \ SchemaNames

\* C2 witness: a file that lacks exactly one schema column and has a label
\* that is no schema column has been refused
C2_Witness ==
    /\ pc = "done" /\ validate /\ result.kind = "HeaderMismatch"
    /\ Cardinality(SchemaNames) = 2
    /\ Cardinality(Range(result.missing)) = 1
    /\ result.extra # <<>>

\* the schema names the header g is reconciled with by name, and by alias
TargetsByName(g) ==
    {e \in SchemaNames : NormalizeHeader(e) = NormalizeHeader(g)}
TargetsByAlias(g) ==
    {schema[i].name : i \in {j \in DOMAIN schema :
        /\ schema[j].name # <<>>
        /\ \E a \in ({schema[j].source, schema[j].source_name} \ {<<>>})
                        \cup Range(schema[j].aliases) :
              NormalizeHeader(a) = NormalizeHeader(g)}}

\* C3: a raw header whose normal form is that of an expected name is mapped
\* to that name, even when the form is also an alias of another column;
\* otherwise one whose normal form is a declared alias, source or
\* source_name is mapped to the declaring column's name; otherwise it keeps
\* its label in the table handed to the validator; none is dropped.
C3_RenamePrecedence ==
    (pc = "done" /\ result.kind # "EmptySchema") =>
        /\ Len(result.renamed) = Len(raw)
        /\ \A i \in DOMAIN raw :
              LET g == raw[i].label
              IN  IF TargetsByName(g) # {} THEN result.renamed[i] \in TargetsByName(g)
                  ELSE IF TargetsByAlias(g) # {} THEN result.renamed[i] \in TargetsByAlias(g)
                  ELSE result.renamed[i] = g

\* C3 witness: a header that matches an expected name and an alias of another
\* column, one that matches an alias only and one that matches nothing
C3_Witness ==
    /\ pc = "done" /\ result.kind # "EmptySchema"
    /\ \E i \in DOMAIN raw :
          /\ TargetsByName(raw[i].label) # {}
          /\ TargetsByAlias(raw[i].label) \ TargetsByName(raw[i].label) # {}
          /\ result.renamed[i] \in TargetsByName(raw[i].label)
    /\ \E i \in DOMAIN raw :
          /\ TargetsByName(raw[i].label) = {}
          /\ TargetsByAlias(raw[i].label) = {}
          /\ result.renamed[i] = raw[i].label

\* the type keys the casting loop has a branch for, and those of the dates
RecognisedTypeKeys ==
    {TypeString, CategoryKey} \cup IntKeys \cup FloatKeys \cup BoolKeys
        \cup {<<"d", "a", "t", "e">>, <<"d", "a", "t", "e", "t", "i", "m", "e">>,
               <<"d", "a", "t", "e", "t", "i", "m", "e", "6", "4">>}

\* the declared type of the schema name k is none of the recognised ones
UnknownType(k) ==
    TypeKey(DictGet(ExtractSchemaMapping(schema), k)) \notin RecognisedTypeKeys

\* C11 (as stated): a schema type string that is none of the recognised tags
\* makes the read fail with an error instead of the column being treated as
\* a string column.
C11_UnknownTypeFails ==
    (pc = "done" /\ \E k \in SchemaNames : UnknownType(k)) => result.kind # "ok"

\* C11 (amended): a schema type string that is none of the recognised tags
\* raises no error: the column is cast as a string column, its cells
\* unchanged, exactly as a declared column with no type is; a read whose
\* schema declares only unrecognised, missing or string types never fails in
\* the casting.
C11_UnknownTypeIsString ==
    (pc = "done" /\ result.kind # "EmptySchema") =>
        LET m == ExtractSchemaMapping(schema)
            AsString(k) == UnknownType(k) \/ TypeKey(DictGet(m, k)) = TypeString
        IN  /\ (\A k \in SchemaNames : AsString(k)) => result.kind # "CastError"
            /\ result.kind = "ok" =>
                  \A i \in DOMAIN result.table :
                      AsString(result.table[i].label) =>
                          LET from == {j \in DOMAIN raw :
                                          result.renamed[j] = result.table[i].label}
                          IN  IF from = {}
                              THEN \A r \in DOMAIN result.table[i].cells :
                                       result.table[i].cells[r] = NullCell
                              ELSE \E j \in from : result.table[i].cells = raw[j].cells

\* C11 witness: a read has succeeded on a schema declaring the type "text",
\* and the column so declared holds the text of the file
C11_Witness ==
    /\ pc = "done" /\ result.kind = "ok"
    /\ \E i \in DOMAIN result.table :
          /\ UnknownType(result.table[i].label)
          /\ result.table[i].cells \in RawCells
    /\ \E i \in DOMAIN schema : schema[i].name # <<>> /\ schema[i].type = <<>>

\* ------------------------------------------------------ schema file loading

\* what a path names on the disk: nothing, a file that is no JSON document,
\* or a file holding a JSON object
NoFile == [tag |-> "nofile"]
Malformed == [tag |-> "malformed"]
JsonFile(blob) == [tag |-> "json", blob |-> blob]

\* the schema file of a call: whether schema_filename is given at all and is
\* an absolute path, what the path names as given, and what
\* schema_root / path names
Descriptor(named, absolute, given, rooted) ==
    [named |-> named, absolute |-> absolute, given |-> given, rooted |-> rooted]

\* self.default_encoding
DefaultEncoding == <<"u", "t", "f", "-", "8">>

\* the outcome of _load_schema_file: the blob parsed and the place it was
\* read at, or the error raised; opened lists the files opened, in order
Loaded(blob, at) == [kind |-> "ok", exc |-> "none", blob |-> blob, at |-> at, opened |-> <<at>>]
NotLoaded(kind, exc, opened) ==
    [kind |-> kind, exc |-> exc, blob |-> Blob(FALSE, <<>>, FALSE, <<>>, <<>>), at |-> "none",
     opened |-> opened]

\* _load_schema_file with the schema file found under schema_root first
LoadSchemaFileRootFirst(d) ==
    LET at == IF ~d.absolute /\ d.rooted.tag # "nofile" THEN "rooted" ELSE "given"
        p == IF at = "rooted" THEN d.rooted ELSE d.given
    IN  IF p.tag = "nofile" THEN NotLoaded("MissingSchema", "FileNotFoundError", <<>>)
        ELSE IF p.tag = "malformed" THEN NotLoaded("SchemaParseError", "JSONDecodeError", <<at>>)
        ELSE Loaded(p.blob, at)

\* _load_schema_file: the path as given when it exists or is absolute, else
\* schema_root / path when that exists; FileNotFoundError when the path
\* settled on does not exist, else the file is opened and parsed
LoadSchemaFile(d) ==
    LET at == IF d.given.tag = "nofile" /\ ~d.absolute /\ d.rooted.tag # "nofile"
              THEN "rooted" ELSE "given"
        p == IF at = "rooted" THEN d.rooted ELSE d.given
    IN  IF p.tag = "nofile" THEN NotLoaded("MissingSchema", "FileNotFoundError", <<>>)
        ELSE IF p.tag = "malformed" THEN NotLoaded("SchemaParseError", "JSONDecodeError", <<at>>)
        ELSE Loaded(p.blob, at)

\* the outcome of a call of the schema loader or of read(): the error kind
\* or "ok", the exception class, the column-type map and the ordered column
\* list (load_generic_schema), the table (read), the files opened in order
Ret(call, kind, exc, mapping, ordered, delimiter, encoding, table, opened) ==
    [call |-> call, kind |-> kind, exc |-> exc, mapping |-> mapping, ordered |-> ordered,
     delimiter |-> delimiter, encoding |-> encoding, table |-> table, opened |-> opened]

\* load_generic_schema without the `or list(mapping.keys())`
LoadGenericSchemaNamesOnly(d) ==
    LET ld == LoadSchemaFile(d)
        mapping == ExtractSchemaMappingOf(ld.blob)
        encoding == IF BlobGet(ld.blob, Key_encoding) = <<>> THEN DefaultEncoding
                    ELSE BlobGet(ld.blob, Key_encoding)
    IN  IF ld.kind # "ok"
        THEN Ret("load_generic_schema", ld.kind, ld.exc, <<>>, <<>>, <<>>, <<>>, <<>>, ld.opened)
        ELSE Ret("load_generic_schema", "ok", "none", mapping, ExtractColumnNamesOf(ld.blob),
                 BlobGet(ld.blob, Key_delimiter), encoding, <<>>, ld.opened)

\* load_generic_schema: (mapping, ordered, delimiter, encoding) of the schema
\* file, `or {}` and `or list(mapping.keys())` standing in for None
LoadGenericSchema(d) ==
    LET ld == LoadSchemaFile(d)
        mapping == ExtractSchemaMappingOf(ld.blob)
        names == ExtractColumnNamesOf(ld.blob)
        ordered == IF names # <<>> THEN names ELSE DictKeys(mapping)
        encoding == IF BlobGet(ld.blob, Key_encoding) = <<>> THEN DefaultEncoding
                    ELSE BlobGet(ld.blob, Key_encoding)
    IN  IF ld.kind # "ok"
        THEN Ret("load_generic_schema", ld.kind, ld.exc, <<>>, <<>>, <<>>, <<>>, <<>>, ld.opened)
        ELSE Ret("load_generic_schema", "ok", "none", mapping, ordered,
                 BlobGet(ld.blob, Key_delimiter), encoding, <<>>, ld.opened)

\* ------------------------------------------------------------- data files

\* what a data file holds: the table its format reader returns, or bytes
\* the reader cannot parse
TableFile(table) == [tag |-> "table", table |-> table]
Unparseable == [tag |-> "unparseable", table |-> <<>>]

\* a file of the folder: its path below the folder, component by component,
\* and what it holds
File(path, content) == [path |-> path, content |-> content]
FileName(path) == path[Len(path)]

EndsWith(s, suffix) ==
    Len(s) >= Len(suffix) /\ SubSeq(s, Len(s) - Len(suffix) + 1, Len(s)) = suffix

\* os.path.splitext(name)[1]: from the last dot on, provided a character
\* that is no dot comes before it
SplitExt(name) ==
    LET dots == {i \in DOMAIN name : name[i] = "."}
        last == CHOOSE i \in dots : \A j \in dots : j <= i
    IN  IF dots = {} THEN <<>>
        ELSE IF \A j \in 1..(last - 1) : name[j] = "." THEN <<>>
        ELSE SubSeq(name, last, Len(name))

\* _ext: the extension in lower case, with the dot
Ext(name) ==
    IF EndsWith(Lower(name), <<".", "x", "l", "s", "x">>) THEN <<".", "x", "l", "s", "x">> ELSE SplitExt(Lower(name))

\* _kind_from_ext for every extension
KindFromExtAny(ext) == "csv"

\* _kind_from_ext: the reader family of an extension, "none" for None
KindFromExt(ext) ==
    CASE ext \in {<<".", "c", "s", "v">>, <<".", "t", "x", "t">>} -> "csv"
      [] ext \in {<<".", "x", "l", "s", "x">>, <<".", "x", "l", "s">>} -> "xls"
      [] ext = <<".", "j", "s", "o", "n">> -> "json"
      [] ext \in {<<".", "y", "m", "l">>, <<".", "y", "a", "m", "l">>} -> "yaml"
      [] OTHER -> "none"

\* the value read() returns or the error it raises, from the outcome o of
\* its steps after the format reader
ReadOutcome(o, opened) ==
    Ret("read", o.kind, o.exc, <<>>, <<>>, <<>>, <<>>, o.table, opened)

\* read() once _load_schema_file has returned ld: the schema is checked for
\* columns; then the reader of the file's extension is run; then headers are
\* reconciled and validated and the types applied (ReadTable)
ReadLoaded(file, ld, validate_columns) ==
    IF ld.kind # "ok"
    THEN Ret("read", ld.kind, ld.exc, <<>>, <<>>, <<>>, <<>>, <<>>, ld.opened)
    ELSE IF ExtractSchemaMappingOf(ld.blob) = <<>>
    THEN Ret("read", "EmptySchema", "ValueError", <<>>, <<>>, <<>>, <<>>, <<>>, ld.opened)
    ELSE IF KindFromExt(Ext(FileName(file.path))) = "none"
    THEN Ret("read", "UnsupportedExtension", "ValueError", <<>>, <<>>, <<>>, <<>>, <<>>,
             ld.opened)
    ELSE IF file.content.tag = "unparseable"
    THEN Ret("read", "ParseError", "ParserError", <<>>, <<>>, <<>>, <<>>, <<>>,
             ld.opened \o <<"data">>)
    ELSE ReadOutcome(ReadTable(file.content.table, ld.blob, validate_columns),
                     ld.opened \o <<"data">>)

\* read(): the schema is required and loaded, then the rest (ReadLoaded)
ReadFile(file, d, validate_columns) ==
    IF ~d.named
    THEN Ret("read", "SchemaRequired", "ValueError", <<>>, <<>>, <<>>, <<>>, <<>>, <<>>)
    ELSE ReadLoaded(file, LoadSchemaFile(d), validate_columns)

\* ------------------------------------------------------------ read_folder

\* the characters of file names and patterns in the order of their code
\* points
CodeOrder ==
    <<" ", "*", "-", ".", "/", "0", "1", "2", "3", "4", "5", "6", "7", "8", "9", "?", "A",
      "B", "C", "D", "E", "F", "G", "H", "I", "J", "K", "L", "M", "N", "O", "P", "Q",
      "R", "S", "T", "U", "V", "W", "X", "Y", "Z", "_", "a", "b", "c", "d", "e", "f",
      "g", "h", "i", "j", "k", "l", "m", "n", "o", "p", "q", "r", "s", "t", "u", "v",
      "w", "x", "y", "z", "Atilde", "Oslash", "atilde", "eacute", "oslash", "acute",
      "tilde", "ndash">>

\* ord(c), up to a monotone renumbering
Code(c) == CHOOSE i \in DOMAIN CodeOrder : CodeOrder[i] = c

RECURSIVE TextLess(_, _)
\* str.__lt__: a < b, character by character
TextLess(a, b) ==
    IF b = <<>> THEN FALSE
    ELSE IF a = <<>> THEN TRUE
    ELSE IF Head(a) # Head(b) THEN Code(Head(a)) < Code(Head(b))
    ELSE TextLess(Tail(a), Tail(b))

RECURSIVE JoinPath(_)
\* str(path): the components joined by "/"
JoinPath(p) ==
    IF Len(p) = 1 THEN p[1] ELSE p[1] \o <<"/">> \o JoinPath(Tail(p))

\* paths compared as the strings str(path)
PathLessAsText(p, q) == TextLess(JoinPath(p), JoinPath(q))

RECURSIVE PathLess(_, _)
\* PurePath.__lt__: the paths compared as the lists of their components
PathLess(p, q) ==
    IF q = <<>> THEN FALSE
    ELSE IF p = <<>> THEN TRUE
    ELSE IF Head(p) # Head(q) THEN TextLess(Head(p), Head(q))
    ELSE PathLess(Tail(p), Tail(q))

RECURSIVE SortedFiles(_)
\* sorted(selected): the files in ascending order of their paths
SortedFiles(files) ==
    IF files = {} THEN <<>>
    ELSE LET least == CHOOSE f \in files : \A g \in files \ {f} : PathLess(f.path, g.path)
         IN  <<least>> \o SortedFiles(files \ {least})

RECURSIVE Fnmatch(_, _)
\* fnmatch.fnmatch(name, pat) on a system whose file names are case
\* sensitive: "*" stands for any run of characters and "?" for any one
\* (no pattern drawn below holds a bracket)
Fnmatch(name, pat) ==
    IF pat = <<>> THEN name = <<>>
    ELSE IF Head(pat) = "*"
    THEN Fnmatch(name, Tail(pat)) \/ (name # <<>> /\ Fnmatch(Tail(name), pat))
    ELSE /\ name # <<>>
         /\ Head(pat) = "?" \/ Head(pat) = Head(name)
         /\ Fnmatch(Tail(name), Tail(pat))

\* _norm: lower case, decomposed, the combining marks dropped (the
\* characters of the model decompose alike under NFD and NFKD)
Norm(s) == SelectSeq(Nfkd(Lower(s)), LAMBDA c : c \notin CombiningChars)

\* the folder argument on the disk: its path, whether it exists and is a
\* directory, and the files below it in the order the file system
\* enumerates them (the directories below it are those of the files' paths)
Folder(path, exists, isDir, listing) ==
    [path |-> path, exists |-> exists, isDir |-> isDir, listing |-> listing]

\* the arguments of read_folder besides folder and schema_filename
FolderArgs(pattern, patterns, recursive, normalize_names, filename_column, filename_fullpath, validate_columns) ==
    [pattern |-> pattern, patterns |-> patterns, recursive |-> recursive,
     normalize_names |-> normalize_names, filename_column |-> filename_column,
     filename_fullpath |-> filename_fullpath, validate_columns |-> validate_columns]

\* the text of an error: its fixed part, and the patterns and the flags
\* normalize_names and recursive when it lists them
Message(text, patterns, flags) == [text |-> text, patterns |-> patterns, flags |-> flags]

\* the outcome of read_folder
FolderRet(kind, exc, msg, table, opened) ==
    [call |-> "read_folder", kind |-> kind, exc |-> exc, msg |-> msg, table |-> table,
     opened |-> opened]

\* the files at every depth, whatever recursive says
FilesOfAnyDepth(f, recursive) == f.listing

\* files = [p for p in candidates if p.is_file()], candidates being
\* folder.rglob("*") or folder.glob("*")
FilesOf(f, recursive) ==
    SelectSeq(f.listing, LAMBDA p : recursive \/ Len(p.path) = 1)

\* pats: the patterns when given, else the one pattern
PatternsOf(a) == IF a.patterns # <<>> THEN a.patterns ELSE <<a.pattern>>

\* _matches
Matches(p, a) ==
    \E i \in DOMAIN PatternsOf(a) :
        IF a.normalize_names
        THEN Fnmatch(Norm(FileName(p.path)), Norm(PatternsOf(a)[i]))
        ELSE Fnmatch(FileName(p.path), PatternsOf(a)[i])

RECURSIVE AddAbsent(_, _)
\* for col in ordered: if col not in df.columns: df[col] = pd.NA
AddAbsent(table, names) ==
    IF names = <<>> THEN table
    ELSE IF Head(names) \in Range(Labels(table)) THEN AddAbsent(table, Tail(names))
    ELSE AddAbsent(table \o <<[label |-> Head(names),
                               cells |-> [r \in 1..NRows(table) |-> NullCell]]>>,
                   Tail(names))

\* df = df[ordered + [c for c in df.columns if c not in ordered]]
SchemaOrderFirst(table, ordered) ==
    IF ordered = <<>> THEN table
    ELSE LET t == AddAbsent(table, ordered)
         IN  SelectColumns(t, ordered \o SelectSeq(Labels(t), LAMBDA c : c \notin Range(ordered)))

\* df[col] = value: every column labelled col is set, or one is appended
SetColumn(table, col, value) ==
    LET filled == [r \in 1..NRows(table) |-> value]
    IN  IF col \in Range(Labels(table))
        THEN [i \in DOMAIN table |->
                 IF table[i].label = col THEN [label |-> col, cells |-> filled] ELSE table[i]]
        ELSE table \o <<[label |-> col, cells |-> filled]>>

\* the frame of one file that was read: schema order, then the provenance
\* column set and moved to the end
Frame(table, ordered, p, f, a) ==
    LET source == IF a.filename_fullpath THEN f.path \o <<"/">> \o JoinPath(p.path)
                  ELSE FileName(p.path)
        t == SetColumn(SchemaOrderFirst(table, ordered), a.filename_column, TextCell(source))
    IN  SelectColumns(t, SelectSeq(Labels(t), LAMBDA c : c # a.filename_column)
                             \o <<a.filename_column>>)

RECURSIVE CatCells(_, _)
\* the cells of column i of the frames, one frame after the other
CatCells(frames, i) ==
    IF frames = <<>> THEN <<>> ELSE Head(frames)[i].cells \o CatCells(Tail(frames), i)

RECURSIVE UnionLabels(_)
\* the union of the frames' labels in the order of first appearance
UnionLabels(frames) ==
    IF frames = <<>> THEN <<>>
    ELSE LET before == UnionLabels(SubSeq(frames, 1, Len(frames) - 1))
         IN  before \o SelectSeq(Labels(frames[Len(frames)]),
                                 LAMBDA c : c \notin Range(before))

\* pd.concat(frames, ignore_index=True): the rows of the frames one frame
\* after the other; frames whose labels differ are aligned on the union of
\* the labels, which fails when a frame has a repeated label
Concat(frames) ==
    IF \A k \in DOMAIN frames : Labels(frames[k]) = Labels(frames[1])
    THEN Typed([i \in DOMAIN frames[1] |->
                   [label |-> frames[1][i].label, cells |-> CatCells(frames, i)]])
    ELSE IF \E k \in DOMAIN frames : \E i, j \in DOMAIN frames[k] :
                i # j /\ frames[k][i].label = frames[k][j].label
    THEN Aborted("InvalidIndexError")
    ELSE LET labels == UnionLabels(frames)
             aligned == [k \in DOMAIN frames |-> SelectColumns(AddAbsent(frames[k], labels),
                                                               labels)]
         IN  Typed([i \in DOMAIN labels |->
                       [label |-> labels[i], cells |-> CatCells(aligned, i)]])

\* the state of the loop over the selected files: the frames read so far,
\* the warnings logged, the files opened, and the error that ended it
Loop(frames, warnings, opened, failed) ==
    [frames |-> frames, warnings |-> warnings, opened |-> opened, failed |-> failed]

RECURSIVE ReadEach(_, _, _, _, _, _)
RECURSIVE AfterRead(_, _, _, _, _, _, _)
\* the loop once read() has returned r for the first of files: an error of
\* read() ends the loop and the call; else the frame is kept and the loop
\* goes on
AfterRead(r, files, ordered, f, d, a, acc) ==
    IF r.kind # "ok"
    THEN [acc EXCEPT !.opened = @ \o r.opened, !.failed = r]
    ELSE ReadEach(Tail(files), ordered, f, d, a,
                  [acc EXCEPT !.opened = @ \o r.opened,
                              !.frames = @ \o <<Frame(r.table, ordered, Head(files), f, a)>>])

\* for p in sorted(selected): a file of an unsupported format is skipped
\* with a warning; any other is read (AfterRead)
ReadEach(files, ordered, f, d, a, acc) ==
    IF files = <<>> THEN acc
    ELSE IF KindFromExt(Ext(FileName(Head(files).path))) = "none"
    THEN ReadEach(Tail(files), ordered, f, d, a,
                  [acc EXCEPT !.warnings = @ \o <<FileName(Head(files).path)>>])
    ELSE AfterRead(ReadFile(Head(files), d, a.validate_columns), files, ordered, f, d, a, acc)

NoMessage == Message("", <<>>, <<>>)

\* an outcome of read_folder and the warnings logged before it
Returned(r, warnings) == [ret |-> r, warnings |-> warnings]

\* read_folder once pd.concat has returned whole
AfterConcat(loop, whole) ==
    IF whole.tag = "raise"
    THEN Returned(FolderRet("ConcatError", whole.exc, NoMessage, <<>>, loop.opened),
                  loop.warnings)
    ELSE Returned(FolderRet("ok", "none", NoMessage, whole.table, loop.opened), loop.warnings)

\* read_folder once the loop over the selected files has ended: the error
\* of read() that ended it, or NoReadableFiles when no frame was read, or
\* the frames concatenated
AfterLoop(a, loop) ==
    IF loop.failed # NullCell
    THEN Returned(FolderRet(loop.failed.kind, loop.failed.exc, NoMessage, <<>>, loop.opened),
                  loop.warnings)
    ELSE IF loop.frames = <<>>
    THEN Returned(FolderRet("NoReadableFiles", "FileNotFoundError",
                            Message("Nenhum arquivo legivel encontrado em", PatternsOf(a),
                                    <<a.normalize_names, a.recursive>>), <<>>, loop.opened),
                  loop.warnings)
    ELSE AfterConcat(loop, Concat(loop.frames))

\* read_folder once the files are selected: NoEligibleFiles, or the loop
AfterSelect(f, d, a, ld, selected) ==
    IF selected = <<>>
    THEN Returned(FolderRet("NoEligibleFiles", "FileNotFoundError",
                            Message("Nenhum arquivo elegivel em", PatternsOf(a),
                                    <<a.normalize_names, a.recursive>>), <<>>, ld.opened),
                  <<>>)
    ELSE AfterLoop(a, ReadEach(SortedFiles(Range(selected)), ExtractColumnNamesOf(ld.blob),
                               f, d, a, Loop(<<>>, <<>>, ld.opened, NullCell)))

\* read_folder once _load_schema_file has returned ld: the schema is
\* checked for columns, then the files are selected
AfterLoad(f, d, a, ld) ==
    IF ld.kind # "ok"
    THEN Returned(FolderRet(ld.kind, ld.exc, NoMessage, <<>>, ld.opened), <<>>)
    ELSE IF ExtractSchemaMappingOf(ld.blob) = <<>>
    THEN Returned(FolderRet("EmptySchema", "ValueError", NoMessage, <<>>, ld.opened), <<>>)
    ELSE AfterSelect(f, d, a, ld,
                     SelectSeq(FilesOf(f, a.recursive), LAMBDA p : Matches(p, a)))

\* read_folder: the outcome and the warnings logged
ReadFolder(f, d, a) ==
    IF ~f.exists \/ ~f.isDir
    THEN Returned(FolderRet("InvalidFolder", "NotADirectoryError",
                            Message("Pasta invalida", <<>>, <<>>), <<>>, <<>>), <<>>)
    ELSE IF FilesOf(f, a.recursive) = <<>>
    THEN Returned(FolderRet("NoFilesFound", "FileNotFoundError",
                            Message("Nenhum arquivo encontrado em", <<>>, <<>>), <<>>, <<>>),
                  <<>>)
    ELSE IF ~d.named
    THEN Returned(FolderRet("SchemaRequired", "ValueError", NoMessage, <<>>, <<>>), <<>>)
    ELSE AfterLoad(f, d, a, LoadSchemaFile(d))

\* -------------------------------------------- specification: schema loading

\* the entries the lists under "columns" and "fields" are made of: a name
\* declared twice with two types, a name without type, an entry without name
SchemaEntries ==
    {ColDef(Name_A, TypeString, <<>>, <<>>, <<>>),
     ColDef(Name_A, <<"i", "n", "t">>, <<>>, <<>>, <<>>),
     ColDef(Name_B, <<>>, <<>>, <<>>, <<>>),
     ColDef(<<>>, <<"i", "n", "t">>, <<>>, <<>>, <<>>)}

NoList == [has |-> FALSE, items |-> <<>>]
List(items) == [has |-> TRUE, items |-> items]

ColumnLists == {NoList} \cup {List(l) : l \in SeqsUpTo(SchemaEntries, MaxSchemaCols)}
FieldLists == {NoList, List(<<>>), List(<<ColDef(Name_B, <<>>, <<>>, <<>>, <<>>)>>)}

\* the other top-level keys: none, a setting only, a setting and a column of
\* the flat form, a key whose value is no string
EntryLists ==
    {<<>>,
     <<Entry(Key_delimiter, <<";">>, TRUE)>>,
     <<Entry(Key_encoding, <<"l", "a", "t", "i", "n", "1">>, TRUE), Entry(<<"C">>, <<"i", "n", "t">>, TRUE)>>,
     <<Entry(<<"C">>, <<"1">>, FALSE)>>}

Blobs ==
    {Blob(c.has, c.items, f.has, f.items, e) :
        c \in ColumnLists, f \in FieldLists, e \in EntryLists}

\* the schema found under schema_root when the path as given names nothing
RootedBlob == ColumnsBlob(<<ColDef(<<"R">>, TypeString, <<>>, <<>>, <<>>)>>)

Descriptors ==
    {Descriptor(n, a, g, r) :
        n \in BOOLEAN, a \in BOOLEAN,
        g \in {NoFile, Malformed} \cup {JsonFile(b) : b \in Blobs},
        r \in {NoFile, JsonFile(RootedBlob)}}

\* the data files read() is called on
DataTable == <<[label |-> <<"a">>, cells |-> <<TextCell(<<"1">>)>>]>>
DataFiles ==
    {File(<<<<"d", ".", "c", "s", "v">>>>, TableFile(DataTable)),
     File(<<<<"d", ".", "j", "s", "o", "n">>>>, Unparseable),
     File(<<<<"d", ".", "p", "d", "f">>>>, TableFile(DataTable))}

InitSchema ==
    /\ pc = "start"
    /\ descriptor \in Descriptors
    /\ args = NullCell
    /\ ret = NullCell
    /\ IdleNorm
    /\ IdleCast
    /\ IdleRead
    /\ IdleFolder

\* a call load_generic_schema(schema_filename); an empty file name is the
\* current directory on the disk, which is no schema file
CallLoadGenericSchema ==
    /\ pc = "start"
    /\ descriptor.named
    /\ ret' = LoadGenericSchema(descriptor)
    /\ pc' = "done"
    /\ UNCHANGED <<header, normalized, renorm, cell, ctype, cast, raw, schema, validate,
                   result, descriptor, folder, args, log>>

\* a call read(path, schema_filename=..., validate_columns=...)
CallReadFile ==
    /\ pc = "start"
    /\ \E file \in DataFiles, validate_columns \in BOOLEAN :
          /\ args' = [file |-> file, validate_columns |-> validate_columns]
          /\ ret' = ReadFile(file, descriptor, validate_columns)
    /\ pc' = "done"
    /\ UNCHANGED <<header, normalized, renorm, cell, ctype, cast, raw, schema, validate,
                   result, descriptor, folder, log>>

\* the folder and the arguments of the calls of read_folder: one file, the
\* default arguments
OneFileFolder == Folder(<<"i", "n">>, TRUE, TRUE, <<File(<<<<"d", ".", "c", "s", "v">>>>, TableFile(DataTable))>>)
DefaultArgs == FolderArgs(<<"*", ".", "*">>, <<>>, FALSE, FALSE, <<"N", "M", "_", "S", "O", "U", "R", "C", "E", "_", "F", "I", "L", "E">>, FALSE, TRUE)

\* a call read_folder(folder, schema_filename=...)
CallReadFolderOnce ==
    /\ pc = "start"
    /\ args' = DefaultArgs
    /\ ret' = ReadFolder(OneFileFolder, descriptor, DefaultArgs).ret
    /\ pc' = "done"
    /\ UNCHANGED <<header, normalized, renorm, cell, ctype, cast, raw, schema, validate,
                   result, descriptor, folder, log>>

NextSchema == CallLoadGenericSchema \/ CallReadFile \/ CallReadFolderOnce

SpecSchema == InitSchema /\ [][NextSchema]_vars

\* the schema path names no file: not as given, and, when it is relative,
\* not under schema_root either
SchemaAbsent ==
    /\ descriptor.given.tag = "nofile"
    /\ descriptor.absolute \/ descriptor.rooted.tag = "nofile"

\* the place of the file the schema path names
SchemaPlace == IF descriptor.given.tag # "nofile" THEN "given" ELSE "rooted"

\* what the file the schema path names holds
SchemaContent == IF SchemaPlace = "given" THEN descriptor.given ELSE descriptor.rooted

\* C12: schema path resolution fails with MissingSchema exactly when the
\* path does not exist as given and, if relative, does not exist under
\* schema_root either; in every other case the file that exists is the one
\* parsed (the path as given first); and no data file is opened before the
\* schema file has been.
C12_SchemaPathResolution ==
    (pc = "done" /\ descriptor.named) =>
        /\ ret.kind = "MissingSchema" <=> SchemaAbsent
        /\ ~SchemaAbsent =>
              /\ ret.opened # <<>> /\ ret.opened[1] = SchemaPlace
              /\ ret.kind = "SchemaParseError" <=> SchemaContent.tag = "malformed"
              /\ (ret.call = "load_generic_schema" /\ ret.kind = "ok") =>
                    ret.mapping = ExtractSchemaMappingOf(SchemaContent.blob)
        /\ \A i \in DOMAIN ret.opened :
              ret.opened[i] = "data" =>
                  \E j \in 1..(i - 1) : ret.opened[j] \in {"given", "rooted"}

\* C12 witness: a relative path that names nothing as given has been found
\* under schema_root, and a read has opened its data file after the schema
C12_Witness ==
    /\ pc = "done" /\ descriptor.given.tag = "nofile"
    /\ ret.opened # <<>> /\ ret.opened[1] = "rooted"
    /\ ret.call = "read" /\ ret.opened[Len(ret.opened)] = "data"

\* the blob declares no column: no entry of "columns" or "fields" has a
\* name, and no top-level key that is no setting holds a string
NoColumnDeclared(blob) ==
    /\ blob.hasColumns => \A i \in DOMAIN blob.columns : blob.columns[i].name = <<>>
    /\ blob.hasFields => \A i \in DOMAIN blob.fields : blob.fields[i].name = <<>>
    /\ \A i \in DOMAIN blob.entries :
          blob.entries[i].k \in KnownCfg \/ ~blob.entries[i].str

\* the schema file has been parsed by the call
SchemaParsed ==
    /\ pc = "done" /\ descriptor.named /\ ~SchemaAbsent
    /\ SchemaContent.tag = "json"

\* C13: a parsed schema from which no column can be extracted (an empty
\* column array, a flat mapping of settings only) raises EmptySchema, in
\* load_generic_schema as well as in read and in read_folder.
C13_EmptySchemaRaised ==
    (SchemaParsed /\ NoColumnDeclared(SchemaContent.blob)) => ret.kind = "EmptySchema"

\* C14: for every parsed schema that declares at least one column (a named
\* entry of the column array, or a top-level name-to-type entry that is no
\* setting) load_generic_schema returns a non-empty ordered column list,
\* whose names are the keys of the column-type map.
C14_OrderedNotEmpty ==
    (SchemaParsed /\ ret.call = "load_generic_schema"
        /\ ~NoColumnDeclared(SchemaContent.blob)) =>
            /\ ret.kind = "ok"
            /\ ret.ordered # <<>>
            /\ Range(ret.ordered) = Range(DictKeys(ret.mapping))

\* C14 witness: a schema of the flat form, and one whose "columns" list has
\* no named entry while "fields" has one, have been loaded
C14_Witness ==
    /\ SchemaParsed /\ ret.call = "load_generic_schema"
    /\ ret.kind = "ok" /\ ret.ordered # <<>>
    /\ ~SchemaContent.blob.hasFields
    /\ SchemaContent.blob.hasColumns => SchemaContent.blob.columns = <<>>

\* C15: the ordered column list the loader returns never holds the same
\* name twice, so it has as many entries as the column-type map has keys.
C15_OrderedNamesUnique ==
    (SchemaParsed /\ ret.call = "load_generic_schema" /\ ret.kind = "ok") =>
        /\ \A i, j \in DOMAIN ret.ordered : i # j => ret.ordered[i] # ret.ordered[j]
        /\ Len(ret.ordered) = Len(ret.mapping)

\* ----------------------------------------------- specification: read_folder

\* the most files a folder holds
MaxFiles == 2

\* the schemas of the folder reads: two columns of an array; the same name
\* declared twice; the flat form; an empty array
FolderSchemas ==
    {ColumnsBlob(<<ColDef(Name_A, TypeString, <<>>, <<>>, <<>>),
                   ColDef(Name_B, <<"i", "n", "t">>, <<>>, <<>>, <<>>)>>),
     ColumnsBlob(<<ColDef(Name_A, TypeString, <<>>, <<>>, <<>>),
                   ColDef(Name_A, TypeString, <<>>, <<>>, <<>>)>>),
     Blob(FALSE, <<>>, FALSE, <<>>, <<Entry(Name_A, TypeString, TRUE)>>),
     ColumnsBlob(<<>>)}

\* the schema file of a folder read: one of the schemas, or no file
FolderDescriptors ==
    {Descriptor(TRUE, FALSE, NoFile, NoFile)}
        \cup {Descriptor(TRUE, FALSE, JsonFile(b), NoFile) : b \in FolderSchemas}

\* the tables of the data files, of two rows: the two schema columns; the
\* first of them only; the two and a third whose header has the normal
\* form of the first
Table_AB ==
    <<[label |-> <<"A">>, cells |-> <<TextCell(<<"x">>), TextCell(<<"y">>)>>],
      [label |-> <<"B">>, cells |-> <<TextCell(<<"1">>), TextCell(<<"2">>)>>]>>
Table_A == <<[label |-> <<"A">>, cells |-> <<TextCell(<<"x">>), TextCell(<<"y">>)>>]>>
Table_aAB ==
    <<[label |-> <<"a">>, cells |-> <<TextCell(<<"z">>), TextCell(<<"z">>)>>]>> \o Table_AB

\* the files a folder is made of: names that differ in case, in accents and
\* in depth, a format that is not supported, a file that cannot be parsed
FolderFiles ==
    {File(<<<<"b", ".", "c", "s", "v">>>>, TableFile(Table_AB)),
     File(<<<<"b", ".", "c", "s", "v">>>>, TableFile(Table_A)),
     File(<<<<"b", ".", "c", "s", "v">>>>, TableFile(Table_aAB)),
     File(<<<<"a", ".", "C", "S", "V">>>>, TableFile(Table_AB)),
     File(<<<<"a">>, <<"z", ".", "c", "s", "v">>>>, TableFile(Table_AB)),
     File(<<<<"c", ".", "p", "d", "f">>>>, TableFile(Table_AB)),
     File(<<<<"d", ".", "j", "s", "o", "n">>>>, Unparseable),
     File(<<<<"eacute", ".", "t", "x", "t">>>>, TableFile(Table_AB))}

\* the enumerations of a folder: files of pairwise distinct paths
Listings ==
    {l \in SeqsUpTo(FolderFiles, MaxFiles) :
        \A i, j \in DOMAIN l : i # j => l[i].path # l[j].path}

FolderPath == <<"i", "n">>

Folders ==
    {Folder(FolderPath, TRUE, TRUE, l) : l \in Listings}
        \cup {Folder(FolderPath, FALSE, FALSE, <<>>), Folder(FolderPath, TRUE, FALSE, <<>>)}

\* the default of filename_column, and a name that is a schema column too
DefaultFilenameColumn == <<"N", "M", "_", "S", "O", "U", "R", "C", "E", "_", "F", "I", "L", "E">>

FolderArgsSet ==
    {FolderArgs(<<"*", ".", "*">>, ps, r, n, c, fp, v) :
        ps \in {<<>>, <<<<"*", ".", "c", "s", "v">>>>, <<<<"E", "*">>, <<"z", "*">>>>},
        r \in BOOLEAN, n \in BOOLEAN, c \in {DefaultFilenameColumn, Name_A},
        fp \in BOOLEAN, v \in BOOLEAN}

InitFolder ==
    /\ pc = "start"
    /\ folder \in Folders
    /\ descriptor \in FolderDescriptors
    /\ args = NullCell
    /\ ret = NullCell
    /\ log = <<>>
    /\ IdleNorm
    /\ IdleCast
    /\ IdleRead

\* a call read_folder(folder, pattern, schema_filename=..., ...)
CallReadFolder ==
    /\ pc = "start"
    /\ \E a \in FolderArgsSet :
          \E r \in {ReadFolder(folder, descriptor, a)} :
              /\ args' = a
              /\ ret' = r.ret
              /\ log' = r.warnings
    /\ pc' = "done"
    /\ UNCHANGED <<header, normalized, renorm, cell, ctype, cast, raw, schema, validate,
                   result, descriptor, folder>>

NextFolder == CallReadFolder

SpecFolder == InitFolder /\ [][NextFolder]_vars

\* the folder argument names a directory
FolderValid == folder.exists /\ folder.isDir

\* the files the listing finds: all of them when recursive, else those
\* directly in the folder
FoundFiles == {i \in DOMAIN folder.listing : args.recursive \/ Len(folder.listing[i].path) = 1}

\* the found files whose name matches one of the configured patterns
SelectedFiles == {i \in FoundFiles : Matches(folder.listing[i], args)}

\* the schema file exists, parses and declares a column
SchemaUsable ==
    /\ descriptor.named /\ ~SchemaAbsent /\ SchemaContent.tag = "json"
    /\ ~NoColumnDeclared(SchemaContent.blob)

StatedExtensions ==
    {<<".", "c", "s", "v">>, <<".", "t", "x", "t">>, <<".", "x", "l", "s">>, <<".", "x", "l", "s", "x">>, <<".", "j", "s", "o", "n">>, <<".", "y", "m", "l">>, <<".", "y", "a", "m", "l">>}

\* the selected files of a format that is not supported, and the others
SelectedUnsupported ==
    {i \in SelectedFiles : Ext(FileName(folder.listing[i].path)) \notin StatedExtensions}
SelectedSupported == SelectedFiles \ SelectedUnsupported

\* the loop over the selected files has been entered
LoopEntered == FolderValid /\ SchemaUsable /\ SelectedFiles # {}

\* the last column of the result: the provenance column
Provenance == ret.table[Len(ret.table)]

\* C17: a selected file whose extension is none of csv, txt, xls, xlsx,
\* json, yml, yaml never fails the batch; when the loop runs to its end each
\* such file has been logged in exactly one warning and no row of the result
\* comes from it; and the call fails with NoReadableFiles exactly when the
\* loop was entered and every selected file is of this kind.
C17_UnsupportedSkipped ==
    (pc = "done" /\ LoopEntered) =>
        /\ ret.kind # "UnsupportedExtension"
        /\ ret.kind = "NoReadableFiles" <=> SelectedSupported = {}
        /\ \A k \in DOMAIN log :
              \E i \in SelectedUnsupported : log[k] = FileName(folder.listing[i].path)
        /\ \A k, h \in DOMAIN log : k # h => log[k] # log[h]
        /\ ret.kind \in {"ok", "NoReadableFiles"} =>
              Len(log) = Cardinality(SelectedUnsupported)
        /\ ret.kind = "ok" =>
              \A i \in SelectedUnsupported : \A r \in DOMAIN Provenance.cells :
                  Provenance.cells[r] \notin
                      {TextCell(FileName(folder.listing[i].path)),
                       TextCell(folder.path \o <<"/">> \o JoinPath(folder.listing[i].path))}

\* C17 witness: a folder holding a file of an unsupported format and a
\* file that was read: one warning, and a table
C17_Witness ==
    /\ pc = "done" /\ LoopEntered /\ ret.kind = "ok"
    /\ Len(log) = 1 /\ SelectedSupported # {}

\* the selected file i of a supported format is read without error by read()
ReadsAlone(i) ==
    ReadFile(folder.listing[i], descriptor, args.validate_columns).kind = "ok"

\* C18: when the read of a selected file of a supported format fails (header
\* mismatch, parse error) and another selected file is read successfully,
\* the call does not fail: it returns the rows of the files that were read.
C18_FailedFileSkipped ==
    (pc = "done" /\ LoopEntered /\ \E i \in SelectedSupported : ReadsAlone(i)) =>
        /\ ret.kind = "ok"
        /\ \A i \in SelectedSupported :
              ReadsAlone(i) =>
                  \E r \in DOMAIN Provenance.cells :
                      Provenance.cells[r] \in
                          {TextCell(FileName(folder.listing[i].path)),
                           TextCell(folder.path \o <<"/">> \o JoinPath(folder.listing[i].path))}

\* p comes before q in the lexicographic order of paths: at the first
\* component where they differ p has the lesser one, or p has none
PathBefore(p, q) ==
    \E n \in 1..Len(q) :
        /\ n <= Len(p) + 1
        /\ \A m \in 1..(n - 1) : p[m] = q[m]
        /\ n = Len(p) + 1 \/ (p[n] # q[n] /\ TextLess(p[n], q[n]))

\* the selected files of a supported format in ascending order of path
ReadOrder ==
    LET Rank(i) == Cardinality({j \in SelectedSupported :
                       PathBefore(folder.listing[j].path, folder.listing[i].path)})
    IN  [n \in 1..Cardinality(SelectedSupported) |->
            folder.listing[CHOOSE i \in SelectedSupported : Rank(i) = n - 1]]

\* the table read() returns for the n-th of them
TableRead(n) == ReadFile(ReadOrder[n], descriptor, args.validate_columns).table

RECURSIVE RowsBefore(_)
\* the number of rows of the files before the n-th
RowsBefore(n) == IF n = 1 THEN 0 ELSE RowsBefore(n - 1) + NRows(TableRead(n - 1))

\* the text that names a file in the provenance column
SourceText(p) ==
    IF args.filename_fullpath THEN folder.path \o <<"/">> \o JoinPath(p.path)
    ELSE FileName(p.path)

\* C19: the rows of the result are the rows of the files that were read,
\* file after file in ascending lexicographic order of path (component by
\* component), the rows of a file in the order of the file, whatever the
\* order in which the file system lists the files; the provenance cell of a
\* row names its file, by bare name or, with filename_fullpath, by path.
C19_RowsInPathOrder ==
    (pc = "done" /\ ret.kind = "ok") =>
        /\ NRows(ret.table) = RowsBefore(Len(ReadOrder) + 1)
        /\ \A n \in DOMAIN ReadOrder : \A r \in 1..NRows(TableRead(n)) :
              /\ Provenance.cells[RowsBefore(n) + r] = TextCell(SourceText(ReadOrder[n]))
              /\ \A i \in 1..(Len(ret.table) - 1) :
                    ret.table[i].label # args.filename_column =>
                        \E c \in DOMAIN TableRead(n) :
                            /\ TableRead(n)[c].label = ret.table[i].label
                            /\ TableRead(n)[c].cells[r] = ret.table[i].cells[RowsBefore(n) + r]

\* C19 witness: two files, one directly in the folder and one in a
\* sub-folder, listed in descending order of path, have been read, and the
\* rows of the one in the sub-folder come first
C19_Witness ==
    /\ pc = "done" /\ ret.kind = "ok" /\ args.recursive /\ args.filename_fullpath
    /\ Len(ReadOrder) = 2
    /\ Len(ReadOrder[1].path) = 2 /\ Len(ReadOrder[2].path) = 1
    /\ folder.listing[1] = ReadOrder[2]

\* C20: for every successful read_folder call, whatever the name of the
\* provenance column and the files, the columns of the result are the
\* ordered columns of the schema followed by the provenance column.
C20_ColumnsThenProvenance ==
    (pc = "done" /\ ret.kind = "ok") =>
        Labels(ret.table) = LoadGenericSchema(descriptor).ordered \o <<args.filename_column>>

\* ------------------------------------------------- delimited text: delimiter

\* longest file text enumerated for _detect_delimiter
MaxSample == 4

\* f.read(64 * 1024): the number of characters of the sample
SampleSize == 65536

\* common = [",", ";", "|", "\t"]
Common == <<",", ";", "|", "tab">>

\* csv.Sniffer.preferred
Preferred == <<",", "tab", ";", " ", ":">>

\* the first n elements of a sequence
Take(s, n) == SubSeq(s, 1, IF Len(s) < n THEN Len(s) ELSE n)

\* str.count of one character
Count(s, c) == Cardinality({i \in DOMAIN s : s[i] = c})

RECURSIVE SplitOn(_, _, _)
\* str.split(sep) continued: cur is the piece being read
SplitOn(s, sep, cur) ==
    IF s = <<>> THEN <<cur>>
    ELSE IF Head(s) = sep THEN <<cur>> \o SplitOn(Tail(s), sep, <<>>)
    ELSE SplitOn(Tail(s), sep, Append(cur, Head(s)))

\* list(filter(None, data.split('\n'))): the lines that are not empty
DataLines(data) == SelectSeq(SplitOn(data, "nl", <<>>), LAMBDA l : l # <<>>)

\* csv.Sniffer._guess_delimiter, table of one character: the number of lines
\* on which the character occurs freq times
MetaFrequency(lines, c, freq) == Cardinality({i \in DOMAIN lines : Count(lines[i], c) = freq})

\* csv.Sniffer._guess_delimiter, modes[char]: the frequency met on most lines
\* (the first met, on a tie), with the number of these lines less the number
\* of the other lines
Mode(lines, c) ==
    LET best == CHOOSE i \in DOMAIN lines :
                    /\ \A j \in DOMAIN lines :
                          MetaFrequency(lines, c, Count(lines[j], c))
                              <= MetaFrequency(lines, c, Count(lines[i], c))
                    /\ \A j \in 1..(i - 1) :
                          MetaFrequency(lines, c, Count(lines[j], c))
                              < MetaFrequency(lines, c, Count(lines[i], c))
        n == MetaFrequency(lines, c, Count(lines[best], c))
    IN  [freq |-> Count(lines[best], c), lines |-> n - (Len(lines) - n)]

\* csv.Sniffer._guess_delimiter, delims at one consistency level (in
\* hundredths): the candidates whose mode is positive and covers that share
\* of the lines
DelimsAt(lines, level) ==
    {c \in Range(Common) :
        /\ Mode(lines, c).freq > 0 /\ Mode(lines, c).lines > 0
        /\ 100 * Mode(lines, c).lines >= level * Len(lines)}

\* csv.Sniffer._guess_delimiter for a sample of fewer than ten lines (one
\* chunk): the candidates at the highest consistency level, from 1.0 down to
\* the threshold 0.9, at which there is one
Delims(lines) ==
    LET levels == {l \in 90..100 : DelimsAt(lines, l) # {}}
    IN  IF lines = <<>> \/ levels = {} THEN {}
        ELSE DelimsAt(lines, CHOOSE l \in levels : \A m \in levels : m <= l)

\* csv.Sniffer._guess_delimiter: the one candidate left, or the first of the
\* preferred list among those left, or "" (of the four candidates only "|"
\* is outside the preferred list, so two candidates left always hold a
\* preferred one)
GuessDelimiter(data) ==
    LET delims == Delims(DataLines(data))
        preferred == {i \in DOMAIN Preferred : Preferred[i] \in delims}
    IN  IF delims = {} THEN ""
        ELSE IF Cardinality(delims) = 1 THEN CHOOSE c \in delims : TRUE
        ELSE Preferred[CHOOSE i \in preferred : \A j \in preferred : i <= j]

\* max(counts, key=counts.get): the first candidate of common with the
\* highest count
Best(sample) ==
    Common[CHOOSE i \in DOMAIN Common :
              /\ \A j \in DOMAIN Common : Count(sample, Common[j]) <= Count(sample, Common[i])
              /\ \A j \in 1..(i - 1) : Count(sample, Common[j]) < Count(sample, Common[i])]

\* _detect_delimiter with `best` returned whatever its count
DetectDelimiterNoDefault(text) ==
    IF GuessDelimiter(Take(text, SampleSize)) # "" THEN GuessDelimiter(Take(text, SampleSize))
    ELSE Best(Take(text, SampleSize))

\* _detect_delimiter on a file of text without quote characters: the
\* delimiter the sniffer finds in the sample and, when it raises (no
\* delimiter found), the most frequent candidate, or ";" when none occurs
DetectDelimiter(text) ==
    IF GuessDelimiter(Take(text, SampleSize)) # "" THEN GuessDelimiter(Take(text, SampleSize))
    ELSE IF Count(Take(text, SampleSize), Best(Take(text, SampleSize))) > 0
         THEN Best(Take(text, SampleSize))
    ELSE ";"

\* _read_csv_or_txt: the separator handed to pd.read_csv; NullCell stands for
\* the argument None
SepOf(delimiter, text) ==
    IF delimiter = NullCell THEN DetectDelimiter(text) ELSE delimiter.text

\* ------------------------------------- specification: delimited text reader

\* the characters of the file texts: the four candidates, a letter, the end
\* of line
SampleChars == {",", ";", "|", "tab", "a", "nl"}

\* the delimiter argument of _read_csv_or_txt
DelimiterArgs == {NullCell, TextCell(":")}

InitDelim ==
    /\ pc = "start"
    /\ args \in [text : SeqsUpTo(SampleChars, MaxSample), delimiter : DelimiterArgs]
    /\ ret = NullCell
    /\ descriptor = NullCell
    /\ IdleNorm
    /\ IdleCast
    /\ IdleRead
    /\ IdleFolder

\* a call _read_csv_or_txt(path, delimiter=..., encoding=...), up to the
\* separator it reads the file with
CallReadCsvOrTxt ==
    /\ pc = "start"
    /\ ret' = [sep |-> SepOf(args.delimiter, args.text)]
    /\ pc' = "done"
    /\ UNCHANGED <<header, normalized, renorm, cell, ctype, cast, raw, schema, validate,
                   result, descriptor, folder, args, log>>

NextDelim == CallReadCsvOrTxt

SpecDelim == InitDelim /\ [][NextDelim]_vars

\* the delimiter was detected: the call is over and no delimiter was given
Detected == pc = "done" /\ args.delimiter = NullCell

\* the sample the detection reads
SampleRead == Take(args.text, SampleSize)

\* C21 as stated: with no delimiter configured, the separator is one of the
\* four candidates, no candidate occurs more often in the sample, and it is
\* ";" when no candidate occurs in the sample.
C21_MostFrequentCandidate ==
    Detected =>
        /\ ret.sep \in Range(Common)
        /\ \A c \in Range(Common) : Count(SampleRead, c) <= Count(SampleRead, ret.sep)
        /\ (\A c \in Range(Common) : Count(SampleRead, c) = 0) => ret.sep = ";"

\* C21 amended: with no delimiter configured, the separator is one of the
\* four candidates; it occurs in the sample whenever a candidate does; it is
\* a candidate with the highest count when the sniffer finds no delimiter;
\* and it is ";" when no candidate occurs in the sample.
C21_CandidateOfTheSample ==
    Detected =>
        /\ ret.sep \in Range(Common)
        /\ (\E c \in Range(Common) : Count(SampleRead, c) > 0) => Count(SampleRead, ret.sep) > 0
        /\ GuessDelimiter(SampleRead) = "" =>
              \A c \in Range(Common) : Count(SampleRead, c) <= Count(SampleRead, ret.sep)
        /\ (\A c \in Range(Common) : Count(SampleRead, c) = 0) => ret.sep = ";"

\* C21 witness: a delimiter was detected that another candidate outnumbers
\* in the sample
C21_Witness ==
    /\ Detected
    /\ \E c \in Range(Common) : Count(SampleRead, c) > Count(SampleRead, ret.sep)

\* ------------------------------------------------------- JSON: JSON-Lines

\* most lines of the files enumerated for _is_ndjson
MaxLines == 22

\* range(20): the number of lines _is_ndjson reads
SampleLines == 20

\* s.startswith("{") and s.endswith("}") for a stripped line
IsObjectLine(s) == s # <<>> /\ s[1] = "{" /\ s[Len(s)] = "}"

\* _is_ndjson after its lines are read: the lines that are not blank are
\* counted, and those among them that are objects
Sampled(lines) == SelectSeq([i \in DOMAIN lines |-> Strip(lines[i], SpaceChars)], LAMBDA s : s # <<>>)
Objs(lines) == Len(SelectSeq(Sampled(lines), IsObjectLine))

\* total >= 3 and objs / max(total, 1) >= 0.6 (the quotients of the counts
\* up to 20 that equal 3/5 are the double 0.6)
MostlyObjects(lines) ==
    Len(Sampled(lines)) >= 3 /\ 10 * Objs(lines) >= 6 * Len(Sampled(lines))

\* _is_ndjson: next(f) is called twenty times; on a file of fewer lines it
\* raises StopIteration, an Exception, and False is returned
IsNdjson(file) ==
    IF Len(file) < SampleLines THEN FALSE
    ELSE MostlyObjects(Take(file, SampleLines))

\* _read_json: whether the file is read as JSON-Lines; NullCell stands for
\* the argument None
JsonLines(json_lines, file) ==
    IF json_lines = NullCell THEN IsNdjson(file) ELSE json_lines.b

\* --------------------------------------------- specification: JSON reader

\* n times the line
Repeat(line, n) == [i \in 1..n |-> line]

\* the lines of the files: an object, a blank line, an opened object
ObjectLine == <<" ", "{", "}", " ">>
BlankLine == <<" ">>
OpenLine == <<"{", "x">>

\* the files: objects, then blank lines, then other lines, or the reverse
JsonFiles ==
    UNION {{Repeat(ObjectLine, n[1]) \o Repeat(BlankLine, n[2]) \o Repeat(OpenLine, n[3]),
            Repeat(OpenLine, n[3]) \o Repeat(BlankLine, n[2]) \o Repeat(ObjectLine, n[1])} :
           n \in {m \in (0..MaxLines) \X (0..MaxLines) \X (0..MaxLines) :
                      m[1] + m[2] + m[3] <= MaxLines}}

\* the json_lines argument of _read_json
JsonLinesArgs == {NullCell, BoolCell(TRUE), BoolCell(FALSE)}

InitJson ==
    /\ pc = "start"
    /\ args \in [file : JsonFiles, json_lines : JsonLinesArgs]
    /\ ret = NullCell
    /\ descriptor = NullCell
    /\ IdleNorm
    /\ IdleCast
    /\ IdleRead
    /\ IdleFolder

\* a call _read_json(path, json_lines, encoding), up to the choice between
\* pd.read_json(lines=True) and json.load
CallReadJson ==
    /\ pc = "start"
    /\ ret' = [lines |-> JsonLines(args.json_lines, args.file)]
    /\ pc' = "done"
    /\ UNCHANGED <<header, normalized, renorm, cell, ctype, cast, raw, schema, validate,
                   result, descriptor, folder, args, log>>

NextJson == CallReadJson

SpecJson == InitJson /\ [][NextJson]_vars

\* the leading lines of the file that are sampled: the first twenty, or all
\* of them when the file has fewer, less the blank ones
LeadingNonBlank == Sampled(Take(args.file, SampleLines))

\* C22: with json_lines not given, a JSON file of any length is read as
\* JSON-Lines exactly when at least 3 leading non-blank lines are sampled
\* and at least 60% of them begin with "{" and end with "}"; a given
\* json_lines decides by itself.
C22_JsonLinesDetected ==
    pc = "done" =>
        /\ args.json_lines = NullCell =>
              (ret.lines <=>
                  /\ Len(LeadingNonBlank) >= 3
                  /\ 10 * Len(SelectSeq(LeadingNonBlank, IsObjectLine)) >= 6 * Len(LeadingNonBlank))
        /\ args.json_lines # NullCell => ret.lines = args.json_lines.b

\* ------------------------------------------------------------- spreadsheet

\* most columns of the sheets enumerated for _read_excel
MaxSheetCols == 3

RECURSIVE Str(_)
\* str(n) for a natural number
Str(n) ==
    IF n < 10 THEN <<CHOOSE d \in Digits : DigitValue(d) = n>>
    ELSE Str(n \div 10) \o <<CHOOSE d \in Digits : DigitValue(d) = n % 10>>

\* f"col_{i+1}" for i = k - 1
SyntheticName(k) == <<"c", "o", "l", "_">> \o Str(k)

\* a top-level key the schema does not have
Absent == [tag |-> "absent"]

\* loaded_schema.get("excel_has_header", True)
ExcelHasHeader(entry) == IF entry = Absent THEN BoolCell(TRUE) ELSE entry

\* loaded_schema.get("excel_index_col", 0); NullCell stands for None
ExcelIndexCol(entry) == IF entry = Absent THEN IntCell(0) ELSE entry

\* pd.read_excel(header=0 or None, index_col=..., dtype=str) on a sheet given
\* as its columns, each the texts of its cells from the top: with a header
\* the first row gives the labels, without one the labels are 0, 1, ...; the
\* column index_col names becomes the row index and is no column of the
\* frame (index_col=None is left out of the keywords); start_row is 0
ExcelFrame(sheet, has_header, index_col) ==
    LET kept == SelectSeq([i \in DOMAIN sheet |-> i],
                          LAMBDA i : index_col = NullCell \/ i - 1 # index_col.v)
        data(i) == IF has_header THEN Tail(sheet[i]) ELSE sheet[i]
    IN  [k \in DOMAIN kept |->
            [label |-> IF has_header THEN sheet[kept[k]][1] ELSE Str(kept[k] - 1),
             cells |-> [r \in DOMAIN data(kept[k]) |-> TextCell(data(kept[k])[r])]]]

\* df.columns = names
SetLabels(frame, names) == [i \in DOMAIN frame |-> [label |-> names[i], cells |-> frame[i].cells]]

\* _read_excel after pd.read_excel: the names given to the columns of df
ExcelNames(df, has_header, column_names) ==
    IF column_names # <<>>
    THEN IF Len(column_names) # Len(df)
         THEN IF Len(column_names) >= Len(df) THEN Take(column_names, Len(df))
              ELSE column_names \o [i \in 1..(Len(df) - Len(column_names)) |-> SyntheticName(i)]
         ELSE column_names
    ELSE IF ~has_header THEN [i \in DOMAIN df |-> SyntheticName(i)]
    ELSE Labels(df)

\* _read_excel (the cells are text, fillna changes none)
ReadExcel(sheet, has_header, index_col, column_names) ==
    SetLabels(ExcelFrame(sheet, has_header, index_col),
              ExcelNames(ExcelFrame(sheet, has_header, index_col), has_header, column_names))

\* --------------------------------------- specification: spreadsheet reader

\* the physical column i of the sheets: a header cell and a data cell
PhysicalColumn(i) == <<<<"H">> \o Str(i), <<"v">> \o Str(i)>>
Sheets == {[i \in 1..n |-> PhysicalColumn(i)] : n \in 1..MaxSheetCols}

\* the column names the schema declares, none included
DeclaredNames == {Take(<<<<"A">>, <<"B">>, <<"C">>, <<"D">>, <<"E">>>>, n) : n \in 0..(MaxSheetCols + 1)}

InitExcel ==
    /\ pc = "start"
    /\ args \in [sheet : Sheets, column_names : DeclaredNames,
                 excel_has_header : {Absent, BoolCell(TRUE), BoolCell(FALSE)},
                 excel_index_col : {Absent, NullCell, IntCell(0)}]
    /\ ret = NullCell
    /\ descriptor = NullCell
    /\ IdleNorm
    /\ IdleCast
    /\ IdleRead
    /\ IdleFolder

\* read() of an .xlsx or .xls file, up to the table _read_excel returns
CallReadExcel ==
    /\ pc = "start"
    /\ ret' = [table |-> ReadExcel(args.sheet, ExcelHasHeader(args.excel_has_header).b,
                                   ExcelIndexCol(args.excel_index_col), args.column_names)]
    /\ pc' = "done"
    /\ UNCHANGED <<header, normalized, renorm, cell, ctype, cast, raw, schema, validate,
                   result, descriptor, folder, args, log>>

NextExcel == CallReadExcel

SpecExcel == InitExcel /\ [][NextExcel]_vars

\* the data cells of the physical column i of the sheet read
PhysicalData(i) ==
    LET texts == IF ExcelHasHeader(args.excel_has_header).b THEN Tail(args.sheet[i])
                 ELSE args.sheet[i]
    IN  [r \in DOMAIN texts |-> TextCell(texts[r])]

\* C23: when the schema declares column names, whatever the configuration,
\* the raw table has as many columns as the sheet, column i holds the data
\* of physical column i, the first columns bear the schema names in order
\* and every surplus column a synthetic name; no column is invented.
C23_SheetColumnsKept ==
    (pc = "done" /\ args.column_names # <<>>) =>
        /\ Len(ret.table) = Len(args.sheet)
        /\ \A i \in DOMAIN ret.table :
              /\ i \in DOMAIN args.sheet /\ ret.table[i].cells = PhysicalData(i)
              /\ ret.table[i].label = IF i <= Len(args.column_names) THEN args.column_names[i]
                                      ELSE SyntheticName(i - Len(args.column_names))

\* ------------------------------------------------- AcessoBasicoContract

\* most rows of the frames enumerated for AcessoBasicoContract.validate
MaxRows == 2

\* the columns the contract declares as Series[...]: they are required
RequiredColumns ==
    {"LOCALIDADE", "COD_IBGE", "TEMA", "INDICADOR", "ANO", "MEDIA_RELATIVA",
     "MEDIA_ABSOLUTA", "DESAGREGADOR", "CLASSIFICACAO", "VALOR_RELATIVO",
     "VALOR_ABSOLUTO", "FONTE"}

\* the columns the contract declares as Optional[...]
OptionalColumns == {"NM_SOURCE_FILE", "DT_CARGA", "ID_EXECUCAO", "TS_CARGA"}

\* the columns declared with pa.Field(ge=0)
NonNegativeColumns == {"MEDIA_RELATIVA", "MEDIA_ABSOLUTA", "VALOR_RELATIVO", "VALOR_ABSOLUTO"}

\* valid_values of desagregador_check and of classificacao_check (written
\* here without their accents)
DesagregadorValues ==
    {"Ate 1/2 salario minimo", "Ate 1/4 de salario minimo", "Branca", "Negra"}
ClassificacaoValues == {"Cor ou Raca da crianca", "Renda domiciliar per capita - I"}

\* pa.Field(gt=2000) with the bound included
Gt2000OrEqual(c) == c.v >= 2000

\* pa.Field(gt=2000) on one value
Gt2000(c) == c.v > 2000

\* pa.Field(ge=0) on one value
Ge0(c) == c.v >= 0

\* the failures of one column of the frame: a null in a column that is not
\* nullable, and the values that fail the checks of the column
ColumnFailures(name, rows) ==
    {"not_nullable" : r \in {i \in DOMAIN rows : name \in DOMAIN rows[i] /\ rows[i][name].tag = "null"}}
    \cup {"check" : r \in {i \in DOMAIN rows :
            /\ name \in DOMAIN rows[i]
            /\ rows[i][name].tag # "null"
            /\ \/ name = "ANO" /\ ~Gt2000(rows[i][name])
               \/ name \in NonNegativeColumns /\ ~Ge0(rows[i][name])
               \/ name = "DESAGREGADOR" /\ rows[i][name].text \notin DesagregadorValues
               \/ name = "CLASSIFICACAO" /\ rows[i][name].text \notin ClassificacaoValues}}

\* AcessoBasicoContract.validate(frame): the kinds of failure pandera
\* reports; a schema error is raised when there is one. Config.strict: a
\* column the contract does not declare is a failure; a required column that
\* is absent is a failure; the values are coerced, then checked
Validate(frame) ==
    {"column_not_in_schema" : c \in frame.columns \ (RequiredColumns \cup OptionalColumns)}
    \cup {"column_not_in_dataframe" : c \in RequiredColumns \ frame.columns}
    \cup UNION {ColumnFailures(c, frame.rows) : c \in frame.columns \cap RequiredColumns}

\* ------------------------------------ specification: contract validation

\* the checked cells of a row that passes every check (the other columns
\* hold any text)
GoodRow ==
    [ANO |-> IntCell(2001), MEDIA_RELATIVA |-> IntCell(0), MEDIA_ABSOLUTA |-> IntCell(0),
     VALOR_RELATIVO |-> IntCell(0), VALOR_ABSOLUTO |-> IntCell(5),
     DESAGREGADOR |-> TextCell("Branca"), CLASSIFICACAO |-> TextCell("Cor ou Raca da crianca")]

\* the rows: the good row and the rows that differ from it by one cell
ContractRows ==
    {GoodRow,
     [GoodRow EXCEPT !.ANO = IntCell(2000)],
     [GoodRow EXCEPT !.ANO = IntCell(1900)],
     [GoodRow EXCEPT !.MEDIA_RELATIVA = IntCell(-1)],
     [GoodRow EXCEPT !.MEDIA_ABSOLUTA = IntCell(-1)],
     [GoodRow EXCEPT !.VALOR_RELATIVO = IntCell(-1)],
     [GoodRow EXCEPT !.VALOR_ABSOLUTO = IntCell(-1)],
     [GoodRow EXCEPT !.VALOR_ABSOLUTO = NullCell],
     [GoodRow EXCEPT !.DESAGREGADOR = TextCell("Parda")],
     [GoodRow EXCEPT !.CLASSIFICACAO = TextCell("Sexo")]}

\* the column sets: the twelve required columns or all but one of them, with
\* or without the columns the pipeline adds, with or without a column the
\* contract does not know
ContractColumns ==
    {(req \cup added) \cup extra :
        req \in {RequiredColumns} \cup {RequiredColumns \ {c} : c \in RequiredColumns},
        added \in {{}, {"NM_SOURCE_FILE", "ID_EXECUCAO", "TS_CARGA"}},
        extra \in {{}, {"OBSERVACAO"}}}

\* a row of the frame: the checked cells of the columns the frame has
RowOf(row, columns) == [c \in (DOMAIN row) \cap columns |-> row[c]]

InitContract ==
    /\ pc = "start"
    /\ \E columns \in ContractColumns, rows \in SeqsUpTo(ContractRows, MaxRows) :
          args = [columns |-> columns, rows |-> [i \in DOMAIN rows |-> RowOf(rows[i], columns)]]
    /\ ret = NullCell
    /\ descriptor = NullCell
    /\ IdleNorm
    /\ IdleCast
    /\ IdleRead
    /\ IdleFolder

\* a call AcessoBasicoContract.validate(frame)
CallValidate ==
    /\ pc = "start"
    /\ ret' = [failures |-> Validate(args)]
    /\ pc' = "done"
    /\ UNCHANGED <<header, normalized, renorm, cell, ctype, cast, raw, schema, validate,
                   result, descriptor, folder, args, log>>

NextContract == CallValidate

SpecContract == InitContract /\ [][NextContract]_vars

\* the frame has the twelve required columns and every row holds admissible
\* values: a year after 2000, four non-negative numbers, a listed
\* DESAGREGADOR and CLASSIFICACAO
AdmissibleValues ==
    /\ RequiredColumns \subseteq args.columns
    /\ \A i \in DOMAIN args.rows :
          /\ args.rows[i].ANO.v > 2000
          /\ \A c \in NonNegativeColumns : args.rows[i][c].tag = "int" /\ args.rows[i][c].v >= 0
          /\ args.rows[i].DESAGREGADOR.text \in DesagregadorValues
          /\ args.rows[i].CLASSIFICACAO.text \in ClassificacaoValues

\* the frame has no column but those the contract declares
DeclaredOnly == args.columns \subseteq RequiredColumns \cup OptionalColumns

\* a required column is missing, or some ANO is not greater than 2000, or
\* some MEDIA_* or VALOR_* value is negative
FaultyFrame ==
    \/ RequiredColumns \ args.columns # {}
    \/ \E i \in DOMAIN args.rows :
          \/ "ANO" \in args.columns /\ args.rows[i].ANO.v <= 2000
          \/ \E c \in NonNegativeColumns \cap args.columns :
                args.rows[i][c].tag = "int" /\ args.rows[i][c].v < 0

\* C24 as stated: validate accepts every frame that has the twelve required
\* columns with admissible values, and raises a schema error for every frame
\* that lacks a required column, holds an ANO that is not greater than 2000
\* or holds a negative MEDIA_* or VALOR_* value.
C24_AcceptsTwelveColumns ==
    pc = "done" =>
        /\ AdmissibleValues => ret.failures = {}
        /\ FaultyFrame => ret.failures # {}

\* C24 amended: validate accepts every frame that has the twelve required
\* columns with admissible values and no column the contract does not
\* declare, and raises a schema error for every frame that lacks a required
\* column, holds an ANO that is not greater than 2000 or holds a negative
\* MEDIA_* or VALOR_* value.
C24_AcceptsDeclaredColumns ==
    pc = "done" =>
        /\ (AdmissibleValues /\ DeclaredOnly) => ret.failures = {}
        /\ FaultyFrame => ret.failures # {}

\* C24 witness: a frame of two admissible rows was accepted
C24_Witness ==
    /\ pc = "done" /\ AdmissibleValues /\ DeclaredOnly /\ Len(args.rows) = 2
    /\ ret.failures = {}

\* ---------------------------------------------------------- remove_arquivos

\* an entry below dirpath: its path relative to dirpath as the names of its
\* components, whether it is a regular file or a directory, and whether
\* unlink raises on it
DirEntry(path, kind, locked) == [path |-> path, kind |-> kind, locked |-> locked]

\* the directory dirpath on the disk: whether it exists and the entries below
\* it in the order the file system enumerates them
Disk(exists, entries) == [exists |-> exists, entries |-> entries]

\* the pattern split at "/" into the patterns of its components
PatternParts(pattern) == SplitOn(pattern, "/", <<>>)

\* the last n elements of a sequence
Last(s, n) == SubSeq(s, Len(s) - n + 1, Len(s))

\* Path.glob(pattern) selects the entries as deep as the pattern has
\* components, each component matching its pattern; Path.rglob(pattern) is
\* glob("**/" + pattern): the last components match
GlobMatch(path, parts, recursivo) ==
    /\ IF recursivo THEN Len(path) >= Len(parts) ELSE Len(path) = Len(parts)
    /\ \A i \in DOMAIN parts : Fnmatch(Last(path, Len(parts))[i], parts[i])

\* p.rglob(pattern) if recursivo else p.glob(pattern)
Glob(entries, pattern, recursivo) ==
    SelectSeq(entries, LAMBDA e : GlobMatch(e.path, PatternParts(pattern), recursivo))

\* p.rglob("*") if recursivo else p.iterdir()
AllPaths(entries, recursivo) == SelectSeq(entries, LAMBDA e : recursivo \/ Len(e.path) = 1)

\* the state of the loop of remove_arquivos: the entries on the disk and the
\* number of files removed
Removal(entries, removed) == [entries |-> entries, removed |-> removed]

RECURSIVE RemovePaths(_, _)
\* for f in paths: a path that is a regular file at the time it is met is
\* unlinked and counted, unless unlink raises
RemovePaths(paths, st) ==
    IF paths = <<>> THEN st
    ELSE IF \E i \in DOMAIN st.entries :
               st.entries[i] = Head(paths) /\ Head(paths).kind = "file" /\ ~Head(paths).locked
    THEN RemovePaths(Tail(paths),
                     Removal(SelectSeq(st.entries, LAMBDA e : e # Head(paths)), st.removed + 1))
    ELSE RemovePaths(Tail(paths), st)

RECURSIVE RemovePatterns(_, _, _)
\* the chained generators of the patterns: the paths of a pattern are
\* listed when the loop reaches them
RemovePatterns(padroes, recursivo, st) ==
    IF padroes = <<>> THEN st
    ELSE RemovePatterns(Tail(padroes), recursivo,
                        RemovePaths(Glob(st.entries, Head(padroes), recursivo), st))

\* remove_arquivos: a missing dirpath is created; `if padroes` is false for
\* None and for the empty list alike
RemoveArquivos(disk, recursivo, padroes) ==
    IF padroes.has /\ padroes.items # <<>>
    THEN RemovePatterns(padroes.items, recursivo, Removal(disk.entries, 0))
    ELSE RemovePaths(AllPaths(disk.entries, recursivo), Removal(disk.entries, 0))

\* --------------------------------------- specification: remove_arquivos

Name_a_csv == <<"a", ".", "c", "s", "v">>
Name_b_tmp == <<"b", ".", "t", "m", "p">>
Name_x_csv == <<"x", ".", "c", "s", "v">>
Name_d == <<"d">>

\* the entries a directory may hold: two files, one of them locked, a
\* directory named like a file, and a directory holding two files
DiskEntries ==
    <<DirEntry(<<Name_a_csv>>, "file", FALSE),
      DirEntry(<<Name_b_tmp>>, "file", TRUE),
      DirEntry(<<Name_x_csv>>, "dir", FALSE),
      DirEntry(<<Name_d>>, "dir", FALSE),
      DirEntry(<<Name_d, Name_a_csv>>, "file", FALSE),
      DirEntry(<<Name_d, Name_b_tmp>>, "file", FALSE)>>

\* the directories on the disk: none, or one holding some of the entries,
\* those of a sub-directory only along with it
Disks ==
    {Disk(FALSE, <<>>)} \cup
    {Disk(TRUE, SelectSeq(DiskEntries, LAMBDA e : e \in held)) :
        held \in {h \in SUBSET Range(DiskEntries) :
                    \A e \in h : Len(e.path) = 2 => DirEntry(<<e.path[1]>>, "dir", FALSE) \in h}}

\* the padroes argument: None, no pattern, one pattern, two patterns that
\* both match a.csv, a pattern of two components
PadroesArgs ==
    {NoList, List(<<>>), List(<<<<"*", ".", "c", "s", "v">>>>),
     List(<<<<"*", ".", "c", "s", "v">>, <<"a", "*">>>>),
     List(<<<<"*", ".", "t", "m", "p">>>>),
     List(<<<<"*", "/", "*", ".", "c", "s", "v">>>>)}

InitRemove ==
    /\ pc = "start"
    /\ folder \in Disks
    /\ args \in [recursivo : BOOLEAN, padroes : PadroesArgs]
    /\ ret = NullCell
    /\ descriptor = NullCell
    /\ log = <<>>
    /\ IdleNorm
    /\ IdleCast
    /\ IdleRead

\* a call remove_arquivos(dirpath, recursivo, padroes): log keeps the
\* directory as it was before the call
CallRemoveArquivos ==
    /\ pc = "start"
    /\ \E st \in {RemoveArquivos(folder, args.recursivo, args.padroes)} :
          /\ folder' = Disk(TRUE, st.entries)
          /\ ret' = [removed |-> st.removed]
    /\ log' = <<folder>>
    /\ pc' = "done"
    /\ UNCHANGED <<header, normalized, renorm, cell, ctype, cast, raw, schema, validate,
                   result, descriptor, args>>

NextRemove == CallRemoveArquivos

SpecRemove == InitRemove /\ [][NextRemove]_vars

\* the entry matches the pattern: its last components match those of the
\* pattern
MatchesPattern(e, pattern) == GlobMatch(e.path, PatternParts(pattern), TRUE)

\* the entries the call is to delete: the regular files, directly under
\* dirpath unless recursivo is set, every one when padroes is None and else
\* those matching a pattern, whose deletion does not fail
ToDelete(before) ==
    {e \in Range(before.entries) :
        /\ e.kind = "file"
        /\ args.recursivo \/ Len(e.path) = 1
        /\ ~args.padroes.has \/ \E i \in DOMAIN args.padroes.items :
                                   MatchesPattern(e, args.padroes.items[i])
        /\ ~e.locked}

\* C25: remove_arquivos deletes the regular files under dirpath that it is
\* to delete and nothing else (no directory, no file of a sub-folder unless
\* recursivo is set, no file that matches no pattern unless padroes is
\* None), returns the number of files deleted, and creates a missing dirpath
\* and returns 0.
C25_RemovesAndCounts ==
    pc = "done" =>
        /\ folder.exists
        /\ Range(folder.entries) = Range(log[1].entries) \ ToDelete(log[1])
        /\ ret.removed = Cardinality(ToDelete(log[1]))
        /\ ~log[1].exists => ret.removed = 0

\* ------------------------------------------- read(): reading configuration

\* loaded_schema.get(key) as a cell: NullCell for None (the key is absent)
SchemaSetting(blob, key) ==
    IF BlobGet(blob, key) = <<>> THEN NullCell ELSE TextCell(BlobGet(blob, key))

\* `x or y` on two settings: x unless it is None or the empty string
Or(x, y) == IF x # NullCell /\ x.text # <<>> THEN x ELSE y

\* read(), step 3: the delimiter handed to the delimited-text reader (None
\* lets it detect one) and the encoding handed to the readers
ReadConfig(delimiter, encoding, blob) ==
    [delimiter |-> IF delimiter # NullCell THEN delimiter
                   ELSE SchemaSetting(blob, Key_delimiter),
     enc |-> Or(encoding, Or(SchemaSetting(blob, Key_encoding), TextCell(DefaultEncoding)))]

\* ------------------------------ specification: read(), configuration step

Latin1 == <<"l", "a", "t", "i", "n", "-", "1">>
Cp1252 == <<"c", "p", "1", "2", "5", "2">>

\* the delimiter and encoding arguments of read()
ConfigDelimiterArgs == {NullCell, TextCell(<<",">>), TextCell(<<"|">>)}
ConfigEncodingArgs == {NullCell, TextCell(<<>>), TextCell(Latin1)}

\* the settings of the schema: none, or a delimiter, or an encoding, or both
ConfigEntryLists ==
    {d \o e : d \in {<<>>, <<Entry(Key_delimiter, <<";">>, TRUE)>>,
                     <<Entry(Key_delimiter, <<",">>, TRUE)>>},
              e \in {<<>>, <<Entry(Key_encoding, Cp1252, TRUE)>>,
                     <<Entry(Key_encoding, Latin1, TRUE)>>}}

\* the schemas: the column A and the settings
ConfigBlobs == {Blob(TRUE, <<ColDef(<<"A">>, TypeString, <<>>, <<>>, <<>>)>>, FALSE, <<>>, es) : es \in ConfigEntryLists}

InitConfig ==
    /\ pc = "start"
    /\ descriptor \in {Descriptor(TRUE, TRUE, JsonFile(b), NoFile) : b \in ConfigBlobs}
    /\ args \in [delimiter : ConfigDelimiterArgs, encoding : ConfigEncodingArgs]
    /\ ret = NullCell
    /\ IdleNorm
    /\ IdleCast
    /\ IdleRead
    /\ IdleFolder

\* a call read(path, schema_filename=..., delimiter=..., encoding=...), up
\* to the configuration the file is read with
CallReadConfig ==
    /\ pc = "start"
    /\ ret' = ReadConfig(args.delimiter, args.encoding, LoadSchemaFile(descriptor).blob)
    /\ pc' = "done"
    /\ UNCHANGED <<header, normalized, renorm, cell, ctype, cast, raw, schema, validate,
                   result, descriptor, folder, args, log>>

NextConfig == CallReadConfig

SpecConfig == InitConfig /\ [][NextConfig]_vars

\* the setting the schema file holds under the key
SchemaSupplies(key) == SchemaSetting(descriptor.given.blob, key)

\* the one used of three settings by priority: the first that is supplied
Priority(first, second, third) ==
    IF first # NullCell /\ first.text # <<>> THEN first
    ELSE IF second # NullCell /\ second.text # <<>> THEN second
    ELSE third

\* C26: the file is read with the schema's delimiter when the schema has
\* one, else with the caller's, else with none (it is detected), and with
\* the schema's encoding when the schema has one, else with the caller's,
\* else with the instance default.
C26_SchemaBeforeArgument ==
    pc = "done" =>
        /\ ret.delimiter = Priority(SchemaSupplies(Key_delimiter), args.delimiter, NullCell)
        /\ ret.enc = Priority(SchemaSupplies(Key_encoding), args.encoding,
                              TextCell(DefaultEncoding))

\* ------------------------------------------------------ AcessoBasico.run

\* a frame of the pipeline: the names of its columns and the checked cells
\* of its rows
RunFrame(columns, rows) == [columns |-> columns, rows |-> rows]

\* the outcomes of read_folder in extract: FileNotFoundError (no file, or
\* none eligible), another exception, or the rows read
NoFiles == [tag |-> "FileNotFoundError", rows |-> <<>>]
ReadFails == [tag |-> "error", rows |-> <<>>]
RowsRead(rows) == [tag |-> "rows", rows |-> rows]

\* the state of a run: the frame at hand (NullCell before extract), the
\* number of rows of the target table, the rows of the summary log
RunState(df, table, summary) == [df |-> df, table |-> table, summary |-> summary]

\* extract: the frame read_folder returns, with the provenance column, or
\* an empty frame with the schema columns when it raises FileNotFoundError
ExtractFrame(read, ordered_names) ==
    IF read.tag = "FileNotFoundError" THEN RunFrame(ordered_names, <<>>)
    ELSE RunFrame(ordered_names \cup {"NM_SOURCE_FILE"},
                  [i \in DOMAIN read.rows |-> RowOf(read.rows[i], ordered_names)])

\* enrich: two columns more, every row kept
EnrichFrame(df) == RunFrame(df.columns \cup {"ID_EXECUCAO", "TS_CARGA"}, df.rows)

\* save_df_to_table for a frame of n rows: the rows of the table afterwards
\* and what is logged and done; nothing at all for a frame of one row
SaveDfToTable(n, engine, insert_fails, table) ==
    IF ~engine THEN [table |-> table, events |-> <<"no_engine_error">>]
    ELSE IF n < 1 THEN [table |-> table, events |-> <<>>]
    ELSE IF n > 1
    THEN IF insert_fails THEN [table |-> table, events |-> <<"insert_error", "rollback">>]
         ELSE [table |-> table + n, events |-> <<"commit", "saved_info">>]
    ELSE [table |-> table, events |-> <<>>]

\* truncate_table: the rows of the table afterwards; without an engine,
\* without the table or on an error nothing is truncated
TruncateTable(engine, truncate_ok, table) == IF engine /\ truncate_ok THEN 0 ELSE table

\* ---------------------------------------- specification: AcessoBasico.run

\* the rows read_folder returns: rows the contract accepts and a row it
\* rejects
RunRows == {GoodRow, [GoodRow EXCEPT !.ANO = IntCell(2000)]}

\* the columns of the schema of the pipeline: the twelve of the contract,
\* or all of them but one
RunSchemas == {RequiredColumns, RequiredColumns \ {"FONTE"}}

InitRun ==
    /\ pc = "run"
    /\ args \in [read : {NoFiles, ReadFails} \cup {RowsRead(rows) : rows \in SeqsUpTo(RunRows, MaxRows)},
                 ordered_names : RunSchemas,
                 table : {0, 2},
                 engine : BOOLEAN, truncate_ok : BOOLEAN, insert_fails : BOOLEAN]
    /\ ret = RunState(NullCell, args.table, 0)
    /\ log = <<>>
    /\ descriptor = NullCell
    /\ folder = NullCell
    /\ IdleNorm
    /\ IdleCast
    /\ IdleRead

\* run, line 165: df = self.extract(); an exception of read_folder other than
\* FileNotFoundError ends the run
Extract ==
    /\ pc = "run"
    /\ log' = Append(log, "extract")
    /\ IF args.read.tag = "error"
       THEN pc' = "raised" /\ ret' = ret
       ELSE /\ pc' = "extracted"
            /\ ret' = [ret EXCEPT !.df = ExtractFrame(args.read, args.ordered_names)]
    /\ UNCHANGED <<header, normalized, renorm, cell, ctype, cast, raw, schema, validate,
                   result, descriptor, folder, args>>

\* run, line 166: df = self.enrich(df)
Enrich ==
    /\ pc = "extracted"
    /\ log' = Append(log, "enrich")
    /\ ret' = [ret EXCEPT !.df = EnrichFrame(ret.df)]
    /\ pc' = "enriched"
    /\ UNCHANGED <<header, normalized, renorm, cell, ctype, cast, raw, schema, validate,
                   result, descriptor, folder, args>>

\* run, line 167: df = self.transform(df); no row is empty after enrich, so
\* dropna keeps every row; the contract validates the frame or raises
Transform ==
    /\ pc = "enriched"
    /\ IF Validate(ret.df) = {}
       THEN pc' = "transformed" /\ log' = Append(log, "transform")
       ELSE pc' = "raised" /\ log' = log \o <<"transform", "validation_error">>
    /\ UNCHANGED <<header, normalized, renorm, cell, ctype, cast, raw, schema, validate,
                   result, descriptor, folder, args, ret>>

\* run, lines 170-172: if df.empty: ... return df
ReturnEmpty ==
    /\ pc = "transformed"
    /\ ret.df.rows = <<>>
    /\ log' = Append(log, "empty_warning")
    /\ pc' = "returned"
    /\ UNCHANGED <<header, normalized, renorm, cell, ctype, cast, raw, schema, validate,
                   result, descriptor, folder, args, ret>>

\* run, line 174, reached with an empty frame as well
TruncateAnyFrame ==
    /\ pc = "transformed"
    /\ log' = Append(log, "truncate")
    /\ ret' = [ret EXCEPT !.table = TruncateTable(args.engine, args.truncate_ok, ret.table)]
    /\ pc' = "truncated"
    /\ UNCHANGED <<header, normalized, renorm, cell, ctype, cast, raw, schema, validate,
                   result, descriptor, folder, args>>

\* run, line 174: self.truncate()
Truncate ==
    /\ pc = "transformed"
    /\ ret.df.rows # <<>>
    /\ log' = Append(log, "truncate")
    /\ ret' = [ret EXCEPT !.table = TruncateTable(args.engine, args.truncate_ok, ret.table)]
    /\ pc' = "truncated"
    /\ UNCHANGED <<header, normalized, renorm, cell, ctype, cast, raw, schema, validate,
                   result, descriptor, folder, args>>

\* run, line 175: self.load(df)
Load ==
    /\ pc = "truncated"
    /\ \E saved \in {SaveDfToTable(Len(ret.df.rows), args.engine, args.insert_fails, ret.table)} :
          /\ log' = (log \o <<"load">>) \o saved.events
          /\ ret' = [ret EXCEPT !.table = saved.table]
    /\ pc' = "loaded"
    /\ UNCHANGED <<header, normalized, renorm, cell, ctype, cast, raw, schema, validate,
                   result, descriptor, folder, args>>

\* run, lines 176-184: self.load_summary_log(df), then the run returns
LoadSummaryLog ==
    /\ pc = "loaded"
    /\ log' = Append(log, "summary")
    /\ ret' = [ret EXCEPT !.summary = Len(ret.df.rows)]
    /\ pc' = "returned"
    /\ UNCHANGED <<header, normalized, renorm, cell, ctype, cast, raw, schema, validate,
                   result, descriptor, folder, args>>

NextRun == Extract \/ Enrich \/ Transform \/ ReturnEmpty \/ Truncate \/ Load \/ LoadSummaryLog

SpecRun == InitRun /\ [][NextRun]_vars

\* the steps of run called so far, in order
Steps == SelectSeq(log, LAMBDA e : e \in {"extract", "enrich", "transform", "truncate", "load", "summary"})

\* C27: the steps of run are called in the order extract, enrich, transform,
\* truncate, load, summary log; a run that returns has called the first
\* three; when the frame after transform is empty (as when extract found no
\* file) the run returns having called no other; when it is not, the run
\* returns having called all six; and when the validation in transform
\* raises, truncate and load are never called.
C27_RunOrder ==
    /\ Steps = Take(<<"extract", "enrich", "transform", "truncate", "load", "summary">>, Len(Steps))
    /\ pc = "returned" =>
          /\ Len(Steps) >= 3
          /\ ret.df.rows = <<>> => Len(Steps) = 3
          /\ ret.df.rows # <<>> => Len(Steps) = 6
    /\ "truncate" \in Range(log) => ret.df.rows # <<>>
    /\ pc = "raised" => "truncate" \notin Range(log) /\ "load" \notin Range(log)

\* C27 witness: extract found no file, the empty frame passed the
\* validation and the run has returned after transform
C27_Witness ==
    /\ pc = "returned" /\ args.read = NoFiles /\ ret.df.rows = <<>>
    /\ Steps = <<"extract", "enrich", "transform">>

\* the rows of the frame handed to load
Loading == Len(ret.df.rows)

\* C29: with an engine, once load has run on a frame of n >= 1 rows after
\* the truncation, the n rows are in the target table or an insertion error
\* was logged and rolled back.
C29_NonEmptyFrameWritten ==
    (pc \in {"loaded", "returned"} /\ "load" \in Range(log) /\ args.engine /\ Loading >= 1) =>
        \/ ret.table = TruncateTable(args.engine, args.truncate_ok, args.table) + Loading
              /\ "commit" \in Range(log)
        \/ "insert_error" \in Range(log) /\ "rollback" \in Range(log)

\* ------------------------------------------------- read(): renamed headers

\* C28: once read() has renamed the headers of a file whose raw headers are
\* pairwise distinct, no schema column name is the label of two columns.
C28_RenameKeepsDistinct ==
    (pc = "done" /\ result.kind # "EmptySchema") =>
        \A i, j \in DOMAIN result.renamed :
            (i # j /\ result.renamed[i] \in SchemaNames)
                => result.renamed[i] # result.renamed[j]

\* ------------------------------------------------------------ to_float_ptbr

\* longest text enumerated for to_float_ptbr
MaxNumLen == 5

\* the positions of the periods the pattern (?<=\d)\.(?=\d{3}(\D|$)) matches:
\* a digit before, exactly three digits after
ThousandsAt(s) ==
    {i \in DOMAIN s :
        /\ s[i] = "."
        /\ i > 1 /\ s[i - 1] \in Digits
        /\ i + 3 <= Len(s)
        /\ \A k \in 1..3 : s[i + k] \in Digits
        /\ (i + 3 = Len(s) \/ s[i + 4] \notin Digits)}

\* str.replace(pattern, "", regex=True): the matched periods removed
RemoveThousands(s) ==
    LET keep == {i \in DOMAIN s : i \notin ThousandsAt(s)}
        Nth[n \in 1..Cardinality(keep)] ==
            CHOOSE i \in keep : Cardinality({h \in keep : h < i}) = n - 1
    IN  [n \in 1..Cardinality(keep) |-> s[Nth[n]]]

\* the text to_float_ptbr hands to pd.to_numeric
PtbrRewrite(s) ==
    ReplaceChar(ReplaceChar(RemoveChar(Strip(s, SpaceChars), " "), ",", "."), ";", ".")

\* to_float_ptbr on one cell of the series
ToFloatPtbr(c) ==
    IF c.tag = "null" THEN NaN ELSE ToNumeric(RemoveThousands(PtbrRewrite(c.text)))

\* ------------------------------------------- specification: to_float_ptbr

NumChars == {"0", "1", ",", ";", ".", " "}

InitPtbr ==
    /\ pc = "start"
    /\ args \in {NullCell} \cup {TextCell(t) : t \in SeqsUpTo(NumChars, MaxNumLen)}
    /\ ret = NullCell
    /\ descriptor = NullCell
    /\ IdleNorm
    /\ IdleCast
    /\ IdleRead
    /\ IdleFolder

\* a call to_float_ptbr(s) on a series of one cell
CallToFloatPtbr ==
    /\ pc = "start"
    /\ ret' = ToFloatPtbr(args)
    /\ pc' = "done"
    /\ UNCHANGED <<header, normalized, renorm, cell, ctype, cast, raw, schema, validate,
                   result, descriptor, folder, args, log>>

NextPtbr == CallToFloatPtbr

SpecPtbr == InitPtbr /\ [][NextPtbr]_vars

\* the position of the one comma of a text made of digits, a comma and digits
\* (0 for any other text)
CommaOf(t) ==
    IF /\ Cardinality({i \in DOMAIN t : t[i] = ","}) = 1
       /\ \A i \in DOMAIN t : t[i] \in Digits \cup {","}
       /\ t[1] # "," /\ t[Len(t)] # ","
    THEN CHOOSE i \in DOMAIN t : t[i] = ","
    ELSE 0

\* the decimal number a text of digits, a comma and digits writes
Written(t) ==
    Reduce(DigitsValue(SubSeq(t, 1, CommaOf(t) - 1) \o SubSeq(t, CommaOf(t) + 1, Len(t))),
           Len(t) - CommaOf(t))

\* C30: to_float_ptbr gives 1234.56 for "1.234,56" and 84.51 for "84;51";
\* for a text of digits, a decimal comma and digits, whatever the number of
\* fraction digits, it gives the decimal number written; a text without any
\* digit gives null.
C30_ReadsBrazilianNumbers ==
    /\ ToFloatPtbr(TextCell(<<"1", ".", "2", "3", "4", ",", "5", "6">>)) = FloatCell(123456, 2)
    /\ ToFloatPtbr(TextCell(<<"8", "4", ";", "5", "1">>)) = FloatCell(8451, 2)
    /\ (pc = "done" /\ args.tag = "text" /\ args.text # <<>>) =>
          /\ CommaOf(args.text) > 0 => ret = Written(args.text)
          /\ (\A i \in DOMAIN args.text : args.text[i] \notin Digits) => ret = NaN

====
